---- MODULE Spec2Model ----
(***************************************************************************)
(* GeoMindIA backend: the /query pipeline (interpret, generate SQL,        *)
(* execute, enrich, choose visualization), the services behind it and the  *)
(* HTTP handlers of the advanced features, modelled from src/backend.      *)
(*                                                                         *)
(* Texts whose characters the code inspects (query text, the city table's  *)
(* formatted numbers) are sequences of one-character strings.  Decimal     *)
(* numbers are integers in a fixed unit named at each definition.          *)
(***************************************************************************)
EXTENDS Integers, Sequences, FiniteSets, TLC

VARIABLES
    llm_enabled,     \* LLMService.enabled / VisionService.enabled / PhotoAnalysisService.enabled
    maps_enabled,    \* MapsService.enabled / RoutingService.enabled / TimeTravelService.enabled
    pool,            \* GeospatialService.pool
    store,           \* the database: pools it has opened, statement the request in progress submitted
    suspended,       \* the coroutines suspended at an await, each with its locals
    pc,              \* position of the process_query coroutine
    request,         \* the QueryRequest being handled
    interpretation,  \* process_query local
    sql_query,       \* process_query local
    results,         \* process_query local
    response,        \* the QueryResponse returned
    exc,             \* the step of process_query whose exception reached its except clause
    call,            \* the last direct call of a service operation or HTTP handler, with its outcome
    first            \* an earlier call of the same operation, kept for comparison

vars == <<llm_enabled, maps_enabled, pool, store, suspended, pc, request, interpretation,
          sql_query, results, response, exc, call, first>>

(***************************************************************************)
(* Python values                                                           *)
(***************************************************************************)
\* None in a slot that otherwise holds a text; no text equals it, since the
\* elements of a text are single characters
None == <<"None">>

\* the empty dict, and None in a slot that otherwise holds a dict
EmptyDict == <<>>

NoneDict == [none |-> TRUE]

IsNoneDict(v) == "none" \in DOMAIN v

\* dict.get(key, default)
Get(d, key, default) == IF key \in DOMAIN d THEN d[key] ELSE default

\* the value of a variable that holds no record yet
Unset == [unset |-> TRUE]

NoCall == [op |-> "none"]

\* round(n / d) for n >= 0, d > 0: to the nearest integer, ties to even
RoundDiv(n, d) ==
    LET q == n \div d
        r == n % d
    IN  IF 2 * r < d THEN q
        ELSE IF 2 * r > d THEN q + 1
        ELSE IF q % 2 = 0 THEN q ELSE q + 1

Min(a, b) == IF a <= b THEN a ELSE b

Max(a, b) == IF a >= b THEN a ELSE b

(***************************************************************************)
(* Text: str.lower, the `in` operator on strings, str.replace              *)
(***************************************************************************)
Lower(s) ==
    LET lower ==
            [A |-> "a", B |-> "b", C |-> "c", D |-> "d", E |-> "e", F |-> "f", G |-> "g",
             H |-> "h", I |-> "i", J |-> "j", K |-> "k", L |-> "l", M |-> "m", N |-> "n",
             O |-> "o", P |-> "p", Q |-> "q", R |-> "r", S |-> "s", T |-> "t", U |-> "u",
             V |-> "v", W |-> "w", X |-> "x", Y |-> "y", Z |-> "z"]
    IN  [i \in 1..Len(s) |-> IF s[i] \in DOMAIN lower THEN lower[s[i]] ELSE s[i]]

Contains(s, pat) ==
    \E i \in 1..(Len(s) - Len(pat) + 1) : SubSeq(s, i, i + Len(pat) - 1) = pat

RECURSIVE Replace(_, _, _)
Replace(s, old, new) ==
    IF Len(s) < Len(old) THEN s
    ELSE IF SubSeq(s, 1, Len(old)) = old
         THEN new \o Replace(SubSeq(s, Len(old) + 1, Len(s)), old, new)
         ELSE <<s[1]>> \o Replace(Tail(s), old, new)

RECURSIVE Concat(_)
Concat(ss) == IF ss = <<>> THEN <<>> ELSE Head(ss) \o Concat(Tail(ss))

(***************************************************************************)
(* LLMService: the keyword fallback interpreter and the SQL template       *)
(***************************************************************************)
\* the literal texts of _fallback_interpretation
Kw ==
    [porto_alegre |-> <<"p","o","r","t","o"," ","a","l","e","g","r","e">>,
     coffee |-> <<"c","o","f","f","e","e">>,
     restaurant |-> <<"r","e","s","t","a","u","r","a","n","t">>,
     cafeteria |-> <<"c","a","f","e","t","e","r","i","a">>,
     n500 |-> <<"5","0","0">>,
     meter |-> <<"m","e","t","e","r">>,
     metro |-> <<"m","e","t","r","o">>,
     PortoAlegre |-> <<"P","o","r","t","o"," ","A","l","e","g","r","e">>,
     description |-> <<"A","n","a","l","y","s","i","s"," ","q","u","e","r","y",":"," ">>]

BufferOperation ==
    [operation |-> "buffer", parameters |-> [radius |-> "500", unit |-> "meters"]]

CafeFilter ==
    [type |-> "business", attribute |-> "poi_type", operator |-> "equals",
     value |-> <<"c","a","f","e">>, unit |-> "category"]

\* the interpreter with the "coffee" test of the filter step left out
_fallback_interpretation_no_coffee(query) ==
    LET query_lower == Lower(query)
        base == [query_type |-> <<"p","o","l","y","g","o","n">>,
                 analysis_type |-> <<"p","r","o","x","i","m","i","t","y">>,
                 location |-> [city |-> IF Contains(query_lower, Kw.porto_alegre)
                                        THEN Kw.PortoAlegre ELSE None],
                 filters |-> <<>>,
                 spatial_operations |-> <<>>,
                 output |-> [fields |-> <<"name", "score", "geometry">>, limit |-> 50],
                 enrich_with_places |-> (Contains(query_lower, Kw.coffee)
                                         \/ Contains(query_lower, Kw.restaurant)),
                 description |-> Kw.description \o query]
        withOps == IF Contains(query, Kw.n500)
                      /\ (Contains(query_lower, Kw.meter) \/ Contains(query_lower, Kw.metro))
                   THEN [base EXCEPT !.spatial_operations = Append(@, BufferOperation)]
                   ELSE base
    IN  IF Contains(query_lower, Kw.cafeteria)
        THEN [withOps EXCEPT !.filters = Append(@, CafeFilter)]
        ELSE withOps

\* the interpreter with one filters list shared by all calls instead of a
\* fresh list per call
_fallback_interpretation_shared(query) ==
    LET query_lower == Lower(query)
        base == [query_type |-> <<"p","o","l","y","g","o","n">>,
                 analysis_type |-> <<"p","r","o","x","i","m","i","t","y">>,
                 location |-> [city |-> IF Contains(query_lower, Kw.porto_alegre)
                                        THEN Kw.PortoAlegre ELSE None],
                 filters |-> IF call.op = "_fallback_interpretation"
                             THEN call.ret.filters ELSE <<>>,
                 spatial_operations |-> <<>>,
                 output |-> [fields |-> <<"name", "score", "geometry">>, limit |-> 50],
                 enrich_with_places |-> (Contains(query_lower, Kw.coffee)
                                         \/ Contains(query_lower, Kw.restaurant)),
                 description |-> Kw.description \o query]
        withOps == IF Contains(query, Kw.n500)
                      /\ (Contains(query_lower, Kw.meter) \/ Contains(query_lower, Kw.metro))
                   THEN [base EXCEPT !.spatial_operations = Append(@, BufferOperation)]
                   ELSE base
    IN  IF Contains(query_lower, Kw.coffee) \/ Contains(query_lower, Kw.cafeteria)
        THEN [withOps EXCEPT !.filters = Append(@, CafeFilter)]
        ELSE withOps

\* the interpreter looking for "meter" in the text as typed, not in its lower case
_fallback_interpretation_case_sensitive(query) ==
    LET query_lower == Lower(query)
        base == [query_type |-> <<"p","o","l","y","g","o","n">>,
                 analysis_type |-> <<"p","r","o","x","i","m","i","t","y">>,
                 location |-> [city |-> IF Contains(query_lower, Kw.porto_alegre)
                                        THEN Kw.PortoAlegre ELSE None],
                 filters |-> <<>>,
                 spatial_operations |-> <<>>,
                 output |-> [fields |-> <<"name", "score", "geometry">>, limit |-> 50],
                 enrich_with_places |-> (Contains(query_lower, Kw.coffee)
                                         \/ Contains(query_lower, Kw.restaurant)),
                 description |-> Kw.description \o query]
        withOps == IF Contains(query, Kw.n500)
                      /\ (Contains(query, Kw.meter) \/ Contains(query, Kw.metro))
                   THEN [base EXCEPT !.spatial_operations = Append(@, BufferOperation)]
                   ELSE base
    IN  IF Contains(query_lower, Kw.coffee) \/ Contains(query_lower, Kw.cafeteria)
        THEN [withOps EXCEPT !.filters = Append(@, CafeFilter)]
        ELSE withOps

\* the interpreter adding the buffer to every text with "500", unit or not
_fallback_interpretation_any_500(query) ==
    LET query_lower == Lower(query)
        base == [query_type |-> <<"p","o","l","y","g","o","n">>,
                 analysis_type |-> <<"p","r","o","x","i","m","i","t","y">>,
                 location |-> [city |-> IF Contains(query_lower, Kw.porto_alegre)
                                        THEN Kw.PortoAlegre ELSE None],
                 filters |-> <<>>,
                 spatial_operations |-> <<>>,
                 output |-> [fields |-> <<"name", "score", "geometry">>, limit |-> 50],
                 enrich_with_places |-> (Contains(query_lower, Kw.coffee)
                                         \/ Contains(query_lower, Kw.restaurant)),
                 description |-> Kw.description \o query]
        withOps == IF Contains(query, Kw.n500)
                   THEN [base EXCEPT !.spatial_operations = Append(@, BufferOperation)]
                   ELSE base
    IN  IF Contains(query_lower, Kw.coffee) \/ Contains(query_lower, Kw.cafeteria)
        THEN [withOps EXCEPT !.filters = Append(@, CafeFilter)]
        ELSE withOps

\* the interpreter taking the city from the text as typed
_fallback_interpretation_city_from_text(query) ==
    LET query_lower == Lower(query)
        base == [query_type |-> <<"p","o","l","y","g","o","n">>,
                 analysis_type |-> <<"p","r","o","x","i","m","i","t","y">>,
                 location |-> [city |-> IF Contains(query_lower, Kw.porto_alegre)
                                        THEN query ELSE None],
                 filters |-> <<>>,
                 spatial_operations |-> <<>>,
                 output |-> [fields |-> <<"name", "score", "geometry">>, limit |-> 50],
                 enrich_with_places |-> (Contains(query_lower, Kw.coffee)
                                         \/ Contains(query_lower, Kw.restaurant)),
                 description |-> Kw.description \o query]
        withOps == IF Contains(query, Kw.n500)
                      /\ (Contains(query_lower, Kw.meter) \/ Contains(query_lower, Kw.metro))
                   THEN [base EXCEPT !.spatial_operations = Append(@, BufferOperation)]
                   ELSE base
    IN  IF Contains(query_lower, Kw.coffee) \/ Contains(query_lower, Kw.cafeteria)
        THEN [withOps EXCEPT !.filters = Append(@, CafeFilter)]
        ELSE withOps

\* the interpreter answering query_type "point"
_fallback_interpretation_point(query) ==
    LET query_lower == Lower(query)
        base == [query_type |-> <<"p","o","i","n","t">>,
                 analysis_type |-> <<"p","r","o","x","i","m","i","t","y">>,
                 location |-> [city |-> IF Contains(query_lower, Kw.porto_alegre)
                                        THEN Kw.PortoAlegre ELSE None],
                 filters |-> <<>>,
                 spatial_operations |-> <<>>,
                 output |-> [fields |-> <<"name", "score", "geometry">>, limit |-> 50],
                 enrich_with_places |-> (Contains(query_lower, Kw.coffee)
                                         \/ Contains(query_lower, Kw.restaurant)),
                 description |-> Kw.description \o query]
        withOps == IF Contains(query, Kw.n500)
                      /\ (Contains(query_lower, Kw.meter) \/ Contains(query_lower, Kw.metro))
                   THEN [base EXCEPT !.spatial_operations = Append(@, BufferOperation)]
                   ELSE base
    IN  IF Contains(query_lower, Kw.coffee) \/ Contains(query_lower, Kw.cafeteria)
        THEN [withOps EXCEPT !.filters = Append(@, CafeFilter)]
        ELSE withOps

_fallback_interpretation(query) ==
    LET query_lower == Lower(query)
        base == [query_type |-> <<"p","o","l","y","g","o","n">>,
                 analysis_type |-> <<"p","r","o","x","i","m","i","t","y">>,
                 location |-> [city |-> IF Contains(query_lower, Kw.porto_alegre)
                                        THEN Kw.PortoAlegre ELSE None],
                 filters |-> <<>>,
                 spatial_operations |-> <<>>,
                 output |-> [fields |-> <<"name", "score", "geometry">>, limit |-> 50],
                 enrich_with_places |-> (Contains(query_lower, Kw.coffee)
                                         \/ Contains(query_lower, Kw.restaurant)),
                 description |-> Kw.description \o query]
        withOps == IF Contains(query, Kw.n500)
                      /\ (Contains(query_lower, Kw.meter) \/ Contains(query_lower, Kw.metro))
                   THEN [base EXCEPT !.spatial_operations = Append(@, BufferOperation)]
                   ELSE base
    IN  IF Contains(query_lower, Kw.coffee) \/ Contains(query_lower, Kw.cafeteria)
        THEN [withOps EXCEPT !.filters = Append(@, CafeFilter)]
        ELSE withOps

\* _fallback_sql_query reads interpretation["location"]["city"]; a value that
\* is no dict, or a location that is None, has no get
IsDict(v) == "json_scalar" \notin DOMAIN v

\* a result is the returned value or the exception raised
Return(v) == [raised |-> FALSE, ret |-> v]

Raise(e) == [raised |-> TRUE, ret |-> e]

\* the generator testing the city against None only, not for truth
_fallback_sql_query_unless_none(interp) ==
    IF ~IsDict(interp) THEN Raise("AttributeError")
    ELSE LET location == Get(interp, "location", EmptyDict)
         IN  IF IsNoneDict(location) THEN Raise("AttributeError")
             ELSE LET city == Get(location, "city", None)
                      city_filter == IF city # None
                                     THEN <<"WHERE city = '">> \o city \o <<"'">>
                                     ELSE <<>>
                      head == <<"SELECT d.id, d.neighborhood as name, d.population, d.density, ST_AsGeoJSON(d.geom) as geometry, COUNT(poi.id) as nearby_pois FROM demographics d LEFT JOIN points_of_interest poi ON ST_DWithin(d.geom, poi.geom, 500) ">>
                      tail == <<" GROUP BY d.id, d.neighborhood, d.population, d.density, d.geom ORDER BY d.density DESC LIMIT 50;">>
                  IN  Return(head \o city_filter \o tail)

_fallback_sql_query(interp) ==
    IF ~IsDict(interp) THEN Raise("AttributeError")
    ELSE LET location == Get(interp, "location", EmptyDict)
         IN  IF IsNoneDict(location) THEN Raise("AttributeError")
             ELSE LET city == Get(location, "city", None)
                      city_filter == IF city # None /\ city # <<>>
                                     THEN <<"WHERE city = '">> \o city \o <<"'">>
                                     ELSE <<>>
                      head == <<"SELECT d.id, d.neighborhood as name, d.population, d.density, ST_AsGeoJSON(d.geom) as geometry, COUNT(poi.id) as nearby_pois FROM demographics d LEFT JOIN points_of_interest poi ON ST_DWithin(d.geom, poi.geom, 500) ">>
                      tail == <<" GROUP BY d.id, d.neighborhood, d.population, d.density, d.geom ORDER BY d.density DESC LIMIT 50;">>
                  IN  Return(head \o city_filter \o tail)

(***************************************************************************)
(* The model's answers.  A response text is one of a few texts; json.loads *)
(* is given by its value on each of them.                                  *)
(***************************************************************************)
\* ''' stands for the three backquotes of a Markdown code fence, which a TLA+
\* string cannot hold.  geojson and wkt are texts of a geometry column:
\* GeoJSON, and well-known text, which is no JSON.
Texts ==
    [prose |->
        "Here is the interpretation you asked for.",
     fenced |->
        "'''json {\"query_type\": \"heatmap\"} '''",
     heatmap |->
        "{\"query_type\": \"Heatmap\", \"analysis_type\": \"density\", \"location\": {\"city\": \"Curitiba\"}, \"filters\": [{\"type\": \"business\", \"value\": \"Restaurant\"}], \"enrich_with_places\": true}",
     null_value |->
        "{\"query_type\": \"point\", \"location\": {}, \"filters\": [{\"type\": \"business\", \"value\": null}], \"enrich_with_places\": true}",
     route |->
        "{\"query_type\": \"route\", \"analysis_type\": \"proximity\", \"enrich_with_places\": false}",
     null_type |->
        "{\"query_type\": null, \"location\": null}",
     scalar |->
        "42",
     geojson |->
        "{\"type\": \"Point\", \"coordinates\": [-51.2177, -30.0346]}",
     wkt |->
        "POINT(-51.2177 -30.0346)"]

InterpretationTexts ==
    { Texts.prose, Texts.fenced, Texts.heatmap, Texts.null_value, Texts.route,
      Texts.null_type, Texts.scalar }

json_loads(text) ==
    CASE text = Texts.heatmap ->
            Return([query_type |-> <<"H","e","a","t","m","a","p">>,
                    analysis_type |-> <<"d","e","n","s","i","t","y">>,
                    location |-> [city |-> <<"C","u","r","i","t","i","b","a">>],
                    filters |-> << [type |-> "business",
                                    value |-> <<"R","e","s","t","a","u","r","a","n","t">>] >>,
                    enrich_with_places |-> TRUE])
      [] text = Texts.null_value ->
            Return([query_type |-> <<"p","o","i","n","t">>,
                    location |-> EmptyDict,
                    filters |-> << [type |-> "business", value |-> None] >>,
                    enrich_with_places |-> TRUE])
      [] text = Texts.route ->
            Return([query_type |-> <<"r","o","u","t","e">>,
                    analysis_type |-> <<"p","r","o","x","i","m","i","t","y">>,
                    enrich_with_places |-> FALSE])
      [] text = Texts.null_type ->
            Return([query_type |-> None, location |-> NoneDict])
      [] text = Texts.scalar ->
            Return([json_scalar |-> 42])
      [] text = Texts.geojson ->
            Return([type |-> "Point", coordinates |-> <<-512177, -300346>>])
      [] OTHER -> Raise("JSONDecodeError")

\* json.dumps(value, indent=2): a non-empty text that determines the value
json_dumps(v) == <<"json", v>>

\* what one call of model.generate_content does: it raises, or answers a text
GenerateContent(texts) ==
    { [raises |-> TRUE] } \cup { [raises |-> FALSE, text |-> t] : t \in texts }

\* interpret_query with json.loads outside the try block
interpret_query_unparsed(query, context, llm) ==
    IF ~llm_enabled THEN Return(_fallback_interpretation(query))
    ELSE IF llm.raises THEN Return(_fallback_interpretation(query))
    ELSE json_loads(llm.text)

\* interpret_query answering from the interpretation of the request answered
\* last, when there is one
interpret_query_cached(query, context, llm) ==
    IF call.op = "determine_visualization_type" THEN Return(call.interp)
    ELSE IF ~llm_enabled THEN Return(_fallback_interpretation(query))
    ELSE IF llm.raises THEN Return(_fallback_interpretation(query))
    ELSE IF json_loads(llm.text).raised THEN Return(_fallback_interpretation(query))
    ELSE Return(json_loads(llm.text).ret)

interpret_query(query, context, llm) ==
    IF ~llm_enabled THEN Return(_fallback_interpretation(query))
    ELSE IF llm.raises THEN Return(_fallback_interpretation(query))
    ELSE IF json_loads(llm.text).raised THEN Return(_fallback_interpretation(query))
    ELSE Return(json_loads(llm.text).ret)

\* SQL answers, as the pieces of the text
SqlTexts ==
    { << "SELECT name, ST_AsGeoJSON(geom) AS geometry FROM points_of_interest" >>,
      << "'''sql", "\n", "SELECT name, center FROM business_zones", "\n", "'''", "\n" >> }

\* str.strip(): from the first to the last piece that is no whitespace
Strip(t) ==
    LET kept == { i \in 1..Len(t) : t[i] \notin {" ", "\n", "\t"} }
    IN  IF kept = {} THEN <<>>
        ELSE SubSeq(t, CHOOSE i \in kept : \A j \in kept : i <= j,
                       CHOOSE i \in kept : \A j \in kept : i >= j)

generate_sql_query(interp, llm) ==
    IF ~llm_enabled THEN _fallback_sql_query(interp)
    ELSE IF llm.raises THEN _fallback_sql_query(interp)
    ELSE Return(Strip(Replace(Replace(Strip(llm.text), <<"'''sql">>, <<>>), <<"'''">>, <<>>)))

(***************************************************************************)
(* GeospatialService.  Coordinates are in units of 0.0001 degree, rounded  *)
(* numbers in thousandths (a score of 81.5 is 81500).                      *)
(***************************************************************************)
RECURSIVE IntToText(_)
IntToText(n) ==
    LET d == <<"0","1","2","3","4","5","6","7","8","9">>[(n % 10) + 1]
    IN  IF n < 10 THEN <<d>> ELSE IntToText(n \div 10) \o <<d>>

base_lat == -300346

base_lng == -512177

MockRowCount == 10

\* the row built for index i of range(10)
MockRow(i) ==
    LET lat == base_lat + ((i % 5) - 2) * 100
        lng == base_lng + ((i \div 5) - 1) * 100
        polygon_coords == << <<lng - 50, lat - 50>>, <<lng + 50, lat - 50>>,
                             <<lng + 50, lat + 50>>, <<lng - 50, lat + 50>>,
                             <<lng - 50, lat - 50>> >>
    IN  [id |-> i + 1,
         name |-> <<"A","r","e","a"," ">> \o IntToText(i + 1),
         score |-> 100 * RoundDiv(85000 - i * 3500, 100),
         population |-> 5000 + i * 500,
         density |-> 100 * RoundDiv(120000 - i * 5000, 100),
         young_population_pct |-> 100 * RoundDiv(35000 + i * 2000, 100),
         competitor_count |-> i % 3,
         business_centers_nearby |-> 2 + (i % 4),
         avg_walk_time |-> 100 * RoundDiv(5000 + i * 800, 100),
         geometry |-> [type |-> "Polygon", coordinates |-> <<polygon_coords>>],
         center |-> [lat |-> lat, lng |-> lng]]

\* list.sort(key=score, reverse=True): a stable insertion sort, larger scores first
RECURSIVE InsertByScoreDesc(_, _)
InsertByScoreDesc(sorted, row) ==
    IF sorted = <<>> THEN <<row>>
    ELSE IF sorted[Len(sorted)].score >= row.score THEN Append(sorted, row)
    ELSE Append(InsertByScoreDesc(SubSeq(sorted, 1, Len(sorted) - 1), row), sorted[Len(sorted)])

RECURSIVE SortByScoreDesc(_)
SortByScoreDesc(rows) ==
    IF rows = <<>> THEN <<>>
    ELSE InsertByScoreDesc(SortByScoreDesc(SubSeq(rows, 1, Len(rows) - 1)), rows[Len(rows)])

\* the generator sorting without reverse=True
_get_mock_data_unreversed(interp) ==
    LET sorted == SortByScoreDesc([k \in 1..MockRowCount |-> MockRow(k - 1)])
    IN  [k \in 1..Len(sorted) |-> sorted[Len(sorted) + 1 - k]]

_get_mock_data(interp) ==
    SortByScoreDesc([k \in 1..MockRowCount |-> MockRow(k - 1)])

\* the k-th pool object asyncpg.create_pool returns
Pool(k) == <<"Pool", k>>

\* get_pool without its test of self.pool: every call opens a pool
get_pool_recreating(create_ok) ==
    IF create_ok
    THEN [ret |-> Pool(store.created + 1), pool |-> Pool(store.created + 1),
          created |-> store.created + 1]
    ELSE [ret |-> None, pool |-> pool, created |-> store.created]

\* get_pool remembering a failed creation in self.pool and never trying again
get_pool_remembering(create_ok) ==
    IF pool = None
    THEN IF create_ok
         THEN [ret |-> Pool(store.created + 1), pool |-> Pool(store.created + 1),
               created |-> store.created + 1]
         ELSE [ret |-> None, pool |-> <<"Failed">>, created |-> store.created]
    ELSE IF pool = <<"Failed">> THEN [ret |-> None, pool |-> pool, created |-> store.created]
    ELSE [ret |-> pool, pool |-> pool, created |-> store.created]

\* get_pool: the pool it returns (None when creation fails), the new self.pool
\* and the number of pools the database has opened
get_pool(create_ok) ==
    IF pool = None
    THEN IF create_ok
         THEN [ret |-> Pool(store.created + 1), pool |-> Pool(store.created + 1),
               created |-> store.created + 1]
         ELSE [ret |-> None, pool |-> pool, created |-> store.created]
    ELSE [ret |-> pool, pool |-> pool, created |-> store.created]

\* the geometry step setting a text that does not parse to None
ParseGeometry_or_none(row_dict) ==
    IF "geometry" \in DOMAIN row_dict /\ "str" \in DOMAIN row_dict.geometry
    THEN IF json_loads(row_dict.geometry.str).raised
         THEN [row_dict EXCEPT !.geometry = NoneDict]
         ELSE [row_dict EXCEPT !.geometry = json_loads(row_dict.geometry.str).ret]
    ELSE row_dict

\* a value of a row: a str is [str |-> text]; anything else is itself
ParseGeometry(row_dict) ==
    IF "geometry" \in DOMAIN row_dict /\ "str" \in DOMAIN row_dict.geometry
    THEN IF json_loads(row_dict.geometry.str).raised THEN row_dict
         ELSE [row_dict EXCEPT !.geometry = json_loads(row_dict.geometry.str).ret]
    ELSE row_dict

\* execute_query whose try block ends before the rows are converted
execute_query_unguarded(sql, interp, db) ==
    LET p == get_pool(db.fail # "create_pool")
    IN  IF p.ret = None
        THEN [raised |-> FALSE, ret |-> _get_mock_data(interp), pool |-> p.pool, created |-> p.created,
              submitted |-> None]
        ELSE IF db.fail = "acquire"
        THEN [raised |-> FALSE, ret |-> _get_mock_data(interp), pool |-> p.pool, created |-> p.created,
              submitted |-> None]
        ELSE IF db.fail = "fetch"
        THEN [raised |-> FALSE, ret |-> _get_mock_data(interp), pool |-> p.pool, created |-> p.created,
              submitted |-> sql]
        ELSE IF db.fail = "convert"
        THEN [raised |-> TRUE, ret |-> "TypeError", pool |-> p.pool, created |-> p.created, submitted |-> sql]
        ELSE [raised |-> FALSE,
              ret |-> [k \in 1..Len(db.rows) |-> ParseGeometry(db.rows[k])],
              pool |-> p.pool, created |-> p.created, submitted |-> sql]

\* execute_query submitting the statement without its last character
execute_query_rewriting(sql, interp, db) ==
    LET p == get_pool(db.fail # "create_pool")
    IN  IF p.ret = None
        THEN [raised |-> FALSE, ret |-> _get_mock_data(interp), pool |-> p.pool, created |-> p.created,
              submitted |-> None]
        ELSE IF db.fail = "acquire"
        THEN [raised |-> FALSE, ret |-> _get_mock_data(interp), pool |-> p.pool, created |-> p.created,
              submitted |-> None]
        ELSE IF db.fail \in {"fetch", "convert"}
        THEN [raised |-> FALSE, ret |-> _get_mock_data(interp), pool |-> p.pool, created |-> p.created,
              submitted |-> SubSeq(sql, 1, Len(sql) - 1)]
        ELSE [raised |-> FALSE,
              ret |-> [k \in 1..Len(db.rows) |-> ParseGeometry(db.rows[k])],
              pool |-> p.pool, created |-> p.created, submitted |-> SubSeq(sql, 1, Len(sql) - 1)]

\* what the store does during one execute_query: db.fail names the step that
\* raises ("none": no step), db.rows is what conn.fetch returns
execute_query(sql, interp, db) ==
    LET p == get_pool(db.fail # "create_pool")
    IN  IF p.ret = None
        THEN [raised |-> FALSE, ret |-> _get_mock_data(interp), pool |-> p.pool, created |-> p.created,
              submitted |-> None]
        ELSE IF db.fail = "acquire"
        THEN [raised |-> FALSE, ret |-> _get_mock_data(interp), pool |-> p.pool, created |-> p.created,
              submitted |-> None]
        ELSE IF db.fail \in {"fetch", "convert"}
        THEN [raised |-> FALSE, ret |-> _get_mock_data(interp), pool |-> p.pool, created |-> p.created,
              submitted |-> sql]
        ELSE [raised |-> FALSE,
              ret |-> [k \in 1..Len(db.rows) |-> ParseGeometry(db.rows[k])],
              pool |-> p.pool, created |-> p.created, submitted |-> sql]

(***************************************************************************)
(* MapsService                                                             *)
(***************************************************************************)
\* every key of type_mapping maps to itself but "coffee", which maps to "cafe"
_extract_place_types(interp) ==
    LET type_mapping ==
            { <<"c","a","f","e">>, <<"c","o","f","f","e","e">>,
              <<"r","e","s","t","a","u","r","a","n","t">>, <<"g","y","m">>,
              <<"s","c","h","o","o","l">>, <<"b","a","n","k">>,
              <<"h","o","s","p","i","t","a","l">>, <<"p","h","a","r","m","a","c","y">>,
              <<"p","a","r","k">> }
        RECURSIVE ExtractFrom(_)
        ExtractFrom(filters) ==
            IF filters = <<>> THEN Return(<<>>)
            ELSE LET filter_item == Head(filters)
                     rest == ExtractFrom(Tail(filters))
                 IN  IF Get(filter_item, "type", "None") = "business"
                     THEN IF Get(filter_item, "value", <<>>) = None THEN Raise("AttributeError")
                          ELSE IF rest.raised THEN rest
                          ELSE LET value == Lower(Get(filter_item, "value", <<>>))
                               IN  IF value \in type_mapping
                                   THEN Return(<<IF value = <<"c","o","f","f","e","e">>
                                                 THEN <<"c","a","f","e">> ELSE value>>
                                               \o rest.ret)
                                   ELSE rest
                     ELSE rest
        found == ExtractFrom(Get(interp, "filters", <<>>))
    IN  IF found.raised THEN found
        ELSE IF found.ret = <<>> THEN Return(<< <<"c","a","f","e">> >>)
        ELSE found

MaxPlaces == 6

NearbyLimit == 5

\* what the Places API does during one enrich_with_places: its call for row
\* maps.fail_at raises (0: no call raises), every other call answers maps.n
\* places, Place(j) being the j-th
RECURSIVE EnrichRows(_, _, _)
EnrichRows(rows, k, maps) ==
    IF k > Len(rows) THEN Return(rows)
    ELSE IF "center" \notin DOMAIN rows[k] THEN EnrichRows(rows, k + 1, maps)
    ELSE IF ~({"lat", "lng"} \subseteq DOMAIN rows[k].center) THEN Raise("TypeError")
    ELSE LET Place(j) ==
                 IF j % 2 = 1
                 THEN [name |-> <<"P","l","a","c","e"," ">> \o IntToText(j),
                       types |-> <<"cafe", "food">>, rating |-> 40 + j,
                       geometry |-> [location |-> [lat |-> base_lat + j, lng |-> base_lng + j]]]
                 ELSE [name |-> <<"P","l","a","c","e"," ">> \o IntToText(j), types |-> <<>>]
             NearbyEntry(place) ==
                 [name |-> Get(place, "name", None),
                  type |-> IF Get(place, "types", <<>>) # <<>> THEN place.types[1]
                           ELSE "unknown",
                  rating |-> Get(place, "rating", -1),     \* -1: no rating
                  location |-> Get(Get(place, "geometry", EmptyDict), "location", NoneDict)]
             nearby == IF maps.fail_at = k THEN <<>>
                       ELSE [j \in 1..Min(maps.n, NearbyLimit) |-> NearbyEntry(Place(j))]
             row == [f \in DOMAIN rows[k] \cup {"nearby_places"} |->
                        IF f = "nearby_places" THEN nearby ELSE rows[k][f]]
         IN  EnrichRows([rows EXCEPT ![k] = row], k + 1, maps)

enrich_with_places(rows, interp, maps) ==
    IF ~maps_enabled THEN Return(rows)
    ELSE IF _extract_place_types(interp).raised THEN _extract_place_types(interp)
    ELSE EnrichRows(rows, 1, maps)

(***************************************************************************)
(* main.py: determine_visualization_type                                   *)
(***************************************************************************)
\* determine_visualization_type answering "error" for an interpretation it
\* cannot read, instead of raising
determine_visualization_type_error(interp, rows) ==
    IF rows = <<>> THEN Return("none")
    ELSE IF ~IsDict(interp) THEN Return("error")
    ELSE IF Get(interp, "query_type", <<>>) = None THEN Return("error")
    ELSE LET query_type == Lower(Get(interp, "query_type", <<>>))
         IN  IF Contains(query_type, <<"h","e","a","t","m","a","p">>)
             THEN Return("heatmap")
             ELSE IF Get(interp, "analysis_type", <<>>) = None THEN Return("error")
             ELSE IF Contains(Lower(Get(interp, "analysis_type", <<>>)),
                              <<"d","e","n","s","i","t","y">>)
             THEN Return("heatmap")
             ELSE IF Contains(query_type, <<"p","o","l","y","g","o","n">>)
                     \/ Contains(query_type, <<"a","r","e","a">>)
             THEN Return("polygon")
             ELSE IF Contains(query_type, <<"r","o","u","t","e">>)
                     \/ Contains(query_type, <<"p","a","t","h">>)
             THEN Return("polyline")
             ELSE Return("markers")

\* determine_visualization_type testing for a polygon before the heatmap
determine_visualization_type_polygon_first(interp, rows) ==
    IF rows = <<>> THEN Return("none")
    ELSE IF ~IsDict(interp) THEN Raise("AttributeError")
    ELSE IF Get(interp, "query_type", <<>>) = None THEN Raise("AttributeError")
    ELSE LET query_type == Lower(Get(interp, "query_type", <<>>))
         IN  IF Contains(query_type, <<"p","o","l","y","g","o","n">>)
                \/ Contains(query_type, <<"a","r","e","a">>)
             THEN Return("polygon")
             ELSE IF Contains(query_type, <<"h","e","a","t","m","a","p">>)
             THEN Return("heatmap")
             ELSE IF Get(interp, "analysis_type", <<>>) = None THEN Raise("AttributeError")
             ELSE IF Contains(Lower(Get(interp, "analysis_type", <<>>)),
                              <<"d","e","n","s","i","t","y">>)
             THEN Return("heatmap")
             ELSE IF Contains(query_type, <<"r","o","u","t","e">>)
                     \/ Contains(query_type, <<"p","a","t","h">>)
             THEN Return("polyline")
             ELSE Return("markers")

determine_visualization_type(interp, rows) ==
    IF rows = <<>> THEN Return("none")
    ELSE IF ~IsDict(interp) THEN Raise("AttributeError")
    ELSE IF Get(interp, "query_type", <<>>) = None THEN Raise("AttributeError")
    ELSE LET query_type == Lower(Get(interp, "query_type", <<>>))
         IN  IF Contains(query_type, <<"h","e","a","t","m","a","p">>)
             THEN Return("heatmap")
             ELSE IF Get(interp, "analysis_type", <<>>) = None THEN Raise("AttributeError")
             ELSE IF Contains(Lower(Get(interp, "analysis_type", <<>>)),
                              <<"d","e","n","s","i","t","y">>)
             THEN Return("heatmap")
             ELSE IF Contains(query_type, <<"p","o","l","y","g","o","n">>)
                     \/ Contains(query_type, <<"a","r","e","a">>)
             THEN Return("polygon")
             ELSE IF Contains(query_type, <<"r","o","u","t","e">>)
                     \/ Contains(query_type, <<"p","a","t","h">>)
             THEN Return("polyline")
             ELSE Return("markers")

(***************************************************************************)
(* Query texts: concatenations of at most MaxFrags fragments, and the      *)
(* literal text of test_api.py                                             *)
(***************************************************************************)
MaxFrags == 2

MaxShortFrags == 1

test_query ==
    <<"S","h","o","w"," ","m","e"," ","a","r","e","a","s"," ","w","i","t","h"," ",
      "h","i","g","h"," ","p","o","t","e","n","t","i","a","l"," ","f","o","r"," ",
      "c","o","f","f","e","e"," ","s","h","o","p","s">>

TextsUpTo(n) ==
    LET Fragments ==
            { <<"C","o","f","f","e","e">>,
              <<"r","e","s","t","a","u","r","a","n","t">>,
              <<"c","a","f","e","t","e","r","i","a">>,
              <<"5","0","0">>,
              <<" ","M","E","T","E","R","S">>,
              <<"m","e","t","r","o">>,
              <<"P","o","r","t","o"," ","A","l","e","g","r","e">> }
    IN  { Concat(fs) : fs \in UNION { [1..k -> Fragments] : k \in 0..n } }

Queries == TextsUpTo(MaxFrags) \cup {test_query}

ShortQueries == TextsUpTo(MaxShortFrags) \cup {test_query}

(***************************************************************************)
(* Direct calls of LLMService._fallback_interpretation on one service      *)
(***************************************************************************)
\* the services after construction, each key configured or not, no request
\* handled yet
Init ==
    /\ llm_enabled \in BOOLEAN
    /\ maps_enabled \in BOOLEAN
    /\ pool = None
    /\ store = [created |-> 0, submitted |-> None]
    /\ suspended = {}
    /\ pc = "idle"
    /\ request = Unset
    /\ interpretation = Unset
    /\ sql_query = None
    /\ results = <<>>
    /\ response = Unset
    /\ exc = "none"
    /\ call = NoCall
    /\ first = NoCall

\* no key configured
InitInterp ==
    /\ Init
    /\ ~llm_enabled
    /\ ~maps_enabled

\* a direct call on an unconfigured service; `again` marks a call made after
\* a kept one
FallbackInterpretation(q) ==
    /\ ~llm_enabled
    /\ call' = [op |-> "_fallback_interpretation", query |-> q,
                ret |-> _fallback_interpretation(q), again |-> first # NoCall]
    /\ first' = first
    /\ UNCHANGED <<llm_enabled, maps_enabled, pool, store, suspended, pc, request, interpretation,
                   sql_query, results, response, exc>>

\* the same call, its result kept by the caller for a later comparison
FallbackInterpretationKept(q) ==
    /\ ~llm_enabled
    /\ first = NoCall
    /\ call' = [op |-> "_fallback_interpretation", query |-> q,
                ret |-> _fallback_interpretation(q), again |-> FALSE]
    /\ first' = call'
    /\ UNCHANGED <<llm_enabled, maps_enabled, pool, store, suspended, pc, request, interpretation,
                   sql_query, results, response, exc>>

NextInterp ==
    \/ \E q \in Queries : FallbackInterpretation(q)
    \/ \E q \in ShortQueries : FallbackInterpretationKept(q)

SpecInterp == InitInterp /\ [][NextInterp]_vars

(***************************************************************************)
(* main.py: process_query, one request at a time, one action per step      *)
(***************************************************************************)
Contexts == { NoneDict, [city |-> "Porto Alegre"] }

\* the query texts of the requests
RequestQueries ==
    { test_query,
      <<>>,
      <<"c","a","f","e","t","e","r","i","a">>,
      Kw.PortoAlegre \o <<" ">> \o Kw.restaurant,
      <<"C","O","F","F","E","E"," ">> \o Kw.n500 \o <<" ","M","e","t","e","r","s">> }

\* the model is not called
NotCalled == [called |-> FALSE]

MaxRows == 2

\* what conn.fetch returns: rows with a GeoJSON or a well-known-text geometry,
\* and rows of a query that selects a column named center
RowSets ==
    LET DbRows ==
            { [id |-> 1, name |-> <<"B","o","m"," ","F","i","m">>,
               geometry |-> [str |-> Texts.geojson]],
              [id |-> 2, name |-> <<"B","a","t","e","l">>, geometry |-> [str |-> Texts.wkt]],
              [name |-> <<"S","a","v","a","s","s","i">>, center |-> [str |-> Texts.wkt]] }
    IN  UNION { [1..k -> DbRows] : k \in 0..MaxRows }

DbOutcomes ==
    { [fail |-> f] : f \in {"create_pool", "acquire", "fetch", "convert"} }
        \cup { [fail |-> "none", rows |-> rs] : rs \in RowSets }

MaxFailAt == 2

MapsOutcomes == { [fail_at |-> k, n |-> n] : k \in 0..MaxFailAt, n \in { 0, 1, MaxPlaces } }

\* the except clause of process_query, reached from step `step`
Except(step, e) ==
    /\ response' = [query |-> request.query, interpretation |-> <<>>, sql_query |-> <<>>,
                    results |-> <<>>, visualization_type |-> "error", success |-> FALSE,
                    error |-> <<e>>]
    /\ exc' = step
    /\ pc' = "done"

Receive(q, ctx) ==
    /\ pc \in {"idle", "done"}
    /\ request' = [query |-> q, context |-> ctx]
    /\ pc' = "interpret"
    /\ interpretation' = Unset
    /\ sql_query' = None
    /\ results' = <<>>
    /\ response' = Unset
    /\ exc' = "none"
    /\ store' = [store EXCEPT !.submitted = None]
    /\ UNCHANGED <<llm_enabled, maps_enabled, pool, suspended, call, first>>

StepInterpret(llm) ==
    /\ pc = "interpret"
    /\ LET r == interpret_query(request.query, request.context, llm)
       IN  /\ call' = [op |-> "interpret_query", query |-> request.query, llm |-> llm,
                       raised |-> r.raised, ret |-> r.ret]
           /\ IF r.raised
              THEN Except("interpret_query", r.ret) /\ UNCHANGED interpretation
              ELSE /\ interpretation' = r.ret
                   /\ pc' = "generate_sql"
                   /\ UNCHANGED <<response, exc>>
    /\ UNCHANGED <<llm_enabled, maps_enabled, pool, store, suspended, request, sql_query,
                   results, first>>

StepGenerateSql(llm) ==
    /\ pc = "generate_sql"
    /\ LET r == generate_sql_query(interpretation, llm)
       IN  /\ call' = [op |-> "generate_sql_query", interp |-> interpretation, llm |-> llm,
                       raised |-> r.raised, ret |-> r.ret]
           /\ IF r.raised
              THEN Except("generate_sql_query", r.ret) /\ UNCHANGED sql_query
              ELSE /\ sql_query' = r.ret
                   /\ pc' = "execute"
                   /\ UNCHANGED <<response, exc>>
    /\ UNCHANGED <<llm_enabled, maps_enabled, pool, store, suspended, request, interpretation,
                   results, first>>

\* conn.fetch returns the columns the statement selects: a row has a center
\* column only when the statement selects one
StepExecute(db) ==
    /\ pc = "execute"
    /\ db.fail = "create_pool" => pool = None
    /\ db.fail = "none"
          => \A k \in 1..Len(db.rows) :
                 "center" \in DOMAIN db.rows[k]
                     => sql_query = <<"SELECT name, center FROM business_zones">>
    /\ LET r == execute_query(sql_query, interpretation, db)
       IN  /\ call' = [op |-> "execute_query", sql |-> sql_query, interp |-> interpretation,
                       db |-> db, raised |-> r.raised, ret |-> r.ret,
                       submitted |-> r.submitted]
           /\ pool' = r.pool
           /\ store' = [created |-> r.created, submitted |-> r.submitted]
           /\ IF r.raised
              THEN Except("execute_query", r.ret) /\ UNCHANGED results
              ELSE /\ results' = r.ret
                   /\ pc' = "enrich"
                   /\ UNCHANGED <<response, exc>>
    /\ UNCHANGED <<llm_enabled, maps_enabled, suspended, request, interpretation, sql_query,
                   first>>

\* process_query calling the enrichment whatever enrich_with_places says
StepEnrich_unconditional(maps) ==
    /\ pc = "enrich"
    /\ IsDict(interpretation)
    /\ LET r == enrich_with_places(results, interpretation, maps)
       IN  /\ call' = [op |-> "enrich_with_places", rows |-> results,
                       interp |-> interpretation, maps |-> maps,
                       raised |-> r.raised, ret |-> r.ret]
           /\ IF r.raised
              THEN Except("enrich_with_places", r.ret) /\ UNCHANGED results
              ELSE /\ results' = r.ret
                   /\ pc' = "visualize"
                   /\ UNCHANGED <<response, exc>>
    /\ UNCHANGED <<llm_enabled, maps_enabled, pool, store, suspended, request, interpretation,
                   sql_query, first>>

\* interpretation.get("enrich_with_places") is truthy: the enrichment runs
StepEnrich(maps) ==
    /\ pc = "enrich"
    /\ IsDict(interpretation)
    /\ Get(interpretation, "enrich_with_places", FALSE)
    /\ LET r == enrich_with_places(results, interpretation, maps)
       IN  /\ call' = [op |-> "enrich_with_places", rows |-> results,
                       interp |-> interpretation, maps |-> maps,
                       raised |-> r.raised, ret |-> r.ret]
           /\ IF r.raised
              THEN Except("enrich_with_places", r.ret) /\ UNCHANGED results
              ELSE /\ results' = r.ret
                   /\ pc' = "visualize"
                   /\ UNCHANGED <<response, exc>>
    /\ UNCHANGED <<llm_enabled, maps_enabled, pool, store, suspended, request, interpretation,
                   sql_query, first>>

\* it is falsy, or the interpretation is no dict and has no get
StepSkipEnrich ==
    /\ pc = "enrich"
    /\ IF ~IsDict(interpretation)
       THEN Except("process_query", "AttributeError")
       ELSE /\ ~Get(interpretation, "enrich_with_places", FALSE)
            /\ pc' = "visualize"
            /\ UNCHANGED <<response, exc>>
    /\ UNCHANGED <<llm_enabled, maps_enabled, pool, store, suspended, request, interpretation,
                   sql_query,
                   results, call, first>>

StepRespond ==
    /\ pc = "visualize"
    /\ LET r == determine_visualization_type(interpretation, results)
       IN  /\ call' = [op |-> "determine_visualization_type", interp |-> interpretation,
                       rows |-> results, raised |-> r.raised, ret |-> r.ret]
           /\ IF r.raised
              THEN Except("determine_visualization_type", r.ret)
              ELSE /\ response' = [query |-> request.query,
                                   interpretation |-> json_dumps(interpretation),
                                   sql_query |-> sql_query,
                                   results |-> results,
                                   visualization_type |-> r.ret,
                                   success |-> TRUE,
                                   error |-> None]
                   /\ pc' = "done"
                   /\ UNCHANGED exc
    /\ UNCHANGED <<llm_enabled, maps_enabled, pool, store, suspended, request, interpretation,
                   sql_query,
                   results, first>>

Next ==
    \/ \E q \in RequestQueries, ctx \in Contexts : Receive(q, ctx)
    \/ \E llm \in (IF llm_enabled THEN GenerateContent(InterpretationTexts) ELSE {NotCalled}) :
          StepInterpret(llm)
    \/ \E llm \in (IF llm_enabled THEN GenerateContent(SqlTexts) ELSE {NotCalled}) :
          StepGenerateSql(llm)
    \/ \E db \in DbOutcomes : StepExecute(db)
    \/ \E maps \in (IF maps_enabled THEN MapsOutcomes ELSE {NotCalled}) : StepEnrich(maps)
    \/ StepSkipEnrich
    \/ StepRespond

Spec == Init /\ [][Next]_vars

(***************************************************************************)
(* Direct calls of GeospatialService._get_mock_data                        *)
(***************************************************************************)
MockInterpretations ==
    { _fallback_interpretation(q) : q \in ShortQueries }
        \cup { json_loads(t).ret : t \in { u \in InterpretationTexts : ~json_loads(u).raised } }

GetMockData(interp) ==
    /\ call' = [op |-> "_get_mock_data", interp |-> interp, ret |-> _get_mock_data(interp),
                again |-> first # NoCall]
    /\ first' = first
    /\ UNCHANGED <<llm_enabled, maps_enabled, pool, store, suspended, pc, request, interpretation,
                   sql_query, results, response, exc>>

\* the same call, its result kept by the caller for a later comparison
GetMockDataKept(interp) ==
    /\ first = NoCall
    /\ call' = [op |-> "_get_mock_data", interp |-> interp, ret |-> _get_mock_data(interp),
                again |-> FALSE]
    /\ first' = call'
    /\ UNCHANGED <<llm_enabled, maps_enabled, pool, store, suspended, pc, request, interpretation,
                   sql_query, results, response, exc>>

NextMock ==
    \/ \E interp \in MockInterpretations : GetMockData(interp)
    \/ \E interp \in MockInterpretations : GetMockDataKept(interp)

SpecMock == Init /\ [][NextMock]_vars

\* C7: the mock geospatial data generator returns, for every interpretation
\* argument, exactly 10 rows ordered by descending score, and the rows do not
\* depend on the interpretation.
C7_MockDataTenRowsDescending ==
    call.op = "_get_mock_data"
        => /\ Len(call.ret) = 10
           /\ \A i \in 1..(Len(call.ret) - 1) : call.ret[i].score >= call.ret[i + 1].score
           /\ first.op = "_get_mock_data" => first.ret = call.ret

C7_Witness ==
    /\ first.op = "_get_mock_data"
    /\ call.op = "_get_mock_data"
    /\ call.again
    /\ first.interp # call.interp
    /\ call.ret[1].score = 85000
    /\ call.ret[10].score = 53500

(***************************************************************************)
(* Claims about the /query pipeline and its services                       *)
(***************************************************************************)
\* C2: GeospatialService.execute_query never raises: whenever the pool cannot
\* be created, a connection cannot be acquired, or running the query or
\* converting its rows fails, it returns the synthetic mock result set.
C2_ExecuteQueryFallsBackToMock ==
    /\ exc # "execute_query"
    /\ call.op = "execute_query"
          => /\ ~call.raised
             /\ call.db.fail # "none" => call.ret = _get_mock_data(call.interp)

C2_Witness ==
    /\ call.op = "execute_query"
    /\ call.db.fail = "convert"
    /\ pool = Pool(1)
    /\ pc = "enrich"
    /\ Len(results) = MockRowCount

\* C3: when the LLM is configured and the model call raises or its response
\* text is not parseable as JSON, interpret_query does not raise and returns
\* exactly the structure the keyword fallback interpreter produces for the same
\* query text.
C3_InterpretFallsBack ==
    (/\ call.op = "interpret_query"
     /\ llm_enabled
     /\ IF call.llm.raises THEN TRUE ELSE json_loads(call.llm.text).raised)
        => /\ ~call.raised
           /\ exc = "none"
           /\ call.ret = _fallback_interpretation(call.query)

C3_Witness ==
    /\ llm_enabled
    /\ call.op = "interpret_query"
    /\ ~call.llm.raises
    /\ call.llm.text = Texts.fenced
    /\ call.query = test_query
    /\ interpretation = call.ret
    /\ pc = "generate_sql"

\* C4: MapsService.enrich_with_places never raises, for any list of result
\* rows and any interpretation.
C4_EnrichNeverRaises ==
    call.op = "enrich_with_places" => ~call.raised

\* C5: the /query handler never propagates an exception from any pipeline
\* step, and every response it returns satisfies: success is false iff
\* visualization_type is "error" iff error is non-null; and when success is
\* false, results is empty and interpretation and sql_query are empty strings.
C5_QueryResponseShape ==
    /\ exc # "none" => (pc = "done" /\ response # Unset /\ ~response.success)
    /\ response # Unset
          => /\ ~response.success <=> response.visualization_type = "error"
             /\ ~response.success <=> response.error # None
             /\ ~response.success
                   => /\ response.results = <<>>
                      /\ response.interpretation = <<>>
                      /\ response.sql_query = <<>>

C5_Witness ==
    /\ pc = "done"
    /\ exc = "determine_visualization_type"
    /\ ~response.success
    /\ response.visualization_type = "error"
    /\ response.error = <<"AttributeError">>
    /\ results # <<>>

(***************************************************************************)
(* Claims about the keyword fallback interpreter                           *)
(***************************************************************************)
\* C8: with no credentials configured, interpret_query on the literal text
\* "Show me areas with high potential for coffee shops" returns an
\* interpretation whose enrich_with_places is true and whose filters contain a
\* category filter with value "cafe".
C8_TestQueryInterpretation ==
    (call.op = "_fallback_interpretation" /\ call.query = test_query)
        => /\ call.ret.enrich_with_places = TRUE
           /\ \E i \in 1..Len(call.ret.filters) :
                  /\ call.ret.filters[i].value = <<"c","a","f","e">>
                  /\ call.ret.filters[i].unit = "category"

C8_Witness ==
    /\ ~llm_enabled /\ ~maps_enabled
    /\ call.op = "_fallback_interpretation"
    /\ call.query = test_query
    /\ Len(call.ret.filters) = 1

IsDigits(s) == s # <<>> /\ \A i \in 1..Len(s) : s[i] \in {"0","1","2","3","4","5","6","7","8","9"}

RECURSIVE ParseNat(_)
ParseNat(s) ==
    IF s = <<>> THEN 0
    ELSE LET digit == CHOOSE d \in 0..9 :
                          <<"0","1","2","3","4","5","6","7","8","9">>[d + 1] = s[Len(s)]
         IN  ParseNat(SubSeq(s, 1, Len(s) - 1)) * 10 + digit

\* int(text): the value, or "ValueError"
ParseInt(s) == IF IsDigits(s) THEN ParseNat(s) ELSE "ValueError"

\* float(text) for texts "d+" and "d+.d{1,3}", in thousandths, or "ValueError"
ParseFloat(s) ==
    IF IsDigits(s) THEN ParseNat(s) * 1000
    ELSE IF \E i \in 2..(Len(s) - 1) :
                /\ s[i] = "."
                /\ IsDigits(SubSeq(s, 1, i - 1))
                /\ IsDigits(SubSeq(s, i + 1, Len(s)))
                /\ Len(s) - i <= 3
         THEN LET i == CHOOSE k \in 2..(Len(s) - 1) : s[k] = "."
                  frac == SubSeq(s, i + 1, Len(s))
                  scale == CASE Len(frac) = 1 -> 100 [] Len(frac) = 2 -> 10 [] OTHER -> 1
              IN  ParseNat(SubSeq(s, 1, i - 1)) * 1000 + ParseNat(frac) * scale
         ELSE "ValueError"

_get_city_database ==
    [ Sao_Paulo |->
        [population |-> <<"1","2",".","3","M">>, avg_income |-> <<"R","$"," ","4",",","2","0","0">>,
         gdp_per_capita |-> "R$ 58,000", competition |-> "high", saturation |-> "65%",
         growth_rate |-> <<"1",".","8","%">>],
      Rio_de_Janeiro |->
        [population |-> <<"6",".","7","M">>, avg_income |-> <<"R","$"," ","3",",","8","0","0">>,
         gdp_per_capita |-> "R$ 52,000", competition |-> "medium-high", saturation |-> "55%",
         growth_rate |-> <<"1",".","2","%">>],
      Porto_Alegre |->
        [population |-> <<"1",".","4","M">>, avg_income |-> <<"R","$"," ","3",",","4","0","0">>,
         gdp_per_capita |-> "R$ 48,000", competition |-> "medium", saturation |-> "45%",
         growth_rate |-> <<"2",".","2","%">>],
      Curitiba |->
        [population |-> <<"1",".","9","M">>, avg_income |-> <<"R","$"," ","3",",","6","0","0">>,
         gdp_per_capita |-> "R$ 50,000", competition |-> "medium", saturation |-> "48%",
         growth_rate |-> <<"2",".","5","%">>],
      Belo_Horizonte |->
        [population |-> <<"2",".","5","M">>, avg_income |-> <<"R","$"," ","3",",","3","0","0">>,
         gdp_per_capita |-> "R$ 46,000", competition |-> "medium", saturation |-> "50%",
         growth_rate |-> <<"2",".","0","%">>] ]

\* a competition map whose "high" entry was given the weight of a low level
comp_map_swapped == [low |-> 20, medium |-> 12, medium_high |-> 8, high |-> 15]

comp_map == [low |-> 20, medium |-> 12, medium_high |-> 8, high |-> 5]

pop_value(data) == ParseFloat(Replace(data.population, <<"M">>, <<>>))

income_value(data) ==
    ParseInt(Replace(Replace(data.avg_income, <<"R","$"," ">>, <<>>), <<",">>, <<>>))

\* a score whose base depends on the business type
_calculate_city_score_by_business(data, criteria, business_type) ==
    LET base_score == IF business_type = "cafe" /\ data.competition = "medium" THEN 45000 ELSE 50000
        pop_score == Min(pop_value(data) * 3, 20000)
        income_score == Min(income_value(data) * 5, 15000)
        comp_key == IF data.competition = "medium-high" THEN "medium_high"
                    ELSE data.competition
        comp_score == IF comp_key \in DOMAIN comp_map THEN comp_map[comp_key] * 1000
                      ELSE 12000
        growth_value == ParseFloat(Replace(data.growth_rate, <<"%">>, <<>>))
        growth_score == growth_value * 3
        total == base_score + pop_score + income_score + comp_score + growth_score
    IN  100 * RoundDiv(Min(total, 100000), 100)

_calculate_city_score(data, criteria, business_type) ==
    LET base_score == 50000
        pop_score == Min(pop_value(data) * 3, 20000)
        income_score == Min(income_value(data) * 5, 15000)
        comp_key == IF data.competition = "medium-high" THEN "medium_high"
                    ELSE data.competition
        comp_score == IF comp_key \in DOMAIN comp_map THEN comp_map[comp_key] * 1000
                      ELSE 12000
        growth_value == ParseFloat(Replace(data.growth_rate, <<"%">>, <<>>))
        growth_score == growth_value * 3
        total == base_score + pop_score + income_score + comp_score + growth_score
    IN  100 * RoundDiv(Min(total, 100000), 100)

(***************************************************************************)
(* Direct calls of _calculate_city_score: on a table entry, and on the     *)
(* last scored entry with one field changed                                *)
(***************************************************************************)
Populations ==
    { <<"0",".","5","M">>, <<"1",".","4","M">>, <<"1",".","4","2","M">>, <<"2",".","5","M">>,
      <<"6",".","7","M">>, <<"7","M">>, <<"1","2",".","3","M">> }

Incomes ==
    { <<"R","$"," ","9","0","0">>, <<"R","$"," ","2",",","4","6","0">>,
      <<"R","$"," ","2",",","9","8","6">>, <<"R","$"," ","3",",","3","0","0">>,
      <<"R","$"," ","3",",","4","0","0">>, <<"R","$"," ","4",",","2","0","0">> }

CompetitionLevels == <<"low", "medium", "medium-high", "high">>

Criteria == { "none", "population" }

BusinessTypes == { "general", "cafe" }

MaxChanges == 2

\* `changes` counts the field changes that lead from the table entry to data
ScoreCall(city, data, changes, criteria, business_type) ==
    [op |-> "_calculate_city_score", city |-> city, data |-> data, changes |-> changes,
     ret |-> _calculate_city_score(data, criteria, business_type)]

\* what a direct call of an operation leaves alone
Frame ==
    UNCHANGED <<llm_enabled, maps_enabled, pool, store, suspended, pc, request, interpretation,
                sql_query, results, response, exc>>

ScoreTableEntry(city, criteria, business_type) ==
    /\ call' = ScoreCall(city, _get_city_database[city], 0, criteria, business_type)
    /\ first' = NoCall
    /\ Frame

ScoreWithPopulation(p, criteria, business_type) ==
    /\ call.op = "_calculate_city_score"
    /\ p # call.data.population
    /\ call.changes < MaxChanges
    /\ first' = call
    /\ call' = ScoreCall(call.city, [call.data EXCEPT !.population = p], call.changes + 1,
                          criteria, business_type)
    /\ Frame

ScoreWithIncome(inc, criteria, business_type) ==
    /\ call.op = "_calculate_city_score"
    /\ inc # call.data.avg_income
    /\ call.changes < MaxChanges
    /\ first' = call
    /\ call' = ScoreCall(call.city, [call.data EXCEPT !.avg_income = inc], call.changes + 1,
                          criteria, business_type)
    /\ Frame

ScoreWithCompetition(level, criteria, business_type) ==
    /\ call.op = "_calculate_city_score"
    /\ level # call.data.competition
    /\ call.changes < MaxChanges
    /\ first' = call
    /\ call' = ScoreCall(call.city, [call.data EXCEPT !.competition = level], call.changes + 1,
                          criteria, business_type)
    /\ Frame

CompetitionRank(level) == CHOOSE i \in 1..Len(CompetitionLevels) : CompetitionLevels[i] = level

SameExcept(d1, d2, field) ==
    \A f \in DOMAIN d1 : f # field => d1[f] = d2[f]

\* C10: for each entry of the five-city table, with the other fields held
\* fixed, _calculate_city_score never decreases when population or avg_income
\* increases and never increases when the competition level moves along low,
\* medium, medium-high, high.
C10_ScoreMonotone ==
    (first.op = "_calculate_city_score" /\ call.op = "_calculate_city_score")
        => /\ (SameExcept(first.data, call.data, "population")
               /\ pop_value(first.data) <= pop_value(call.data))
                  => first.ret <= call.ret
           /\ (SameExcept(first.data, call.data, "avg_income")
               /\ income_value(first.data) <= income_value(call.data))
                  => first.ret <= call.ret
           /\ (SameExcept(first.data, call.data, "competition")
               /\ CompetitionRank(first.data.competition)
                    <= CompetitionRank(call.data.competition))
                  => first.ret >= call.ret

\* a population increase, an income increase and a competition increase that
\* each moved the score of a table city
C10_Witness ==
    /\ first.op = "_calculate_city_score"
    /\ call.op = "_calculate_city_score"
    /\ first.data = _get_city_database[first.city]
    /\ \/ /\ SameExcept(first.data, call.data, "population")
          /\ pop_value(first.data) < pop_value(call.data)
          /\ first.ret < call.ret
       \/ /\ SameExcept(first.data, call.data, "competition")
          /\ CompetitionRank(first.data.competition) < CompetitionRank(call.data.competition)
          /\ first.ret > call.ret

(***************************************************************************)
(* The single-call HTTP handlers of main.py and the services behind them.  *)
(* A JSON object is a record; a request dict that lacks a key the code     *)
(* reads is a record without that field.  A payload carries the fields     *)
(* named here; its fixed prose is one string.  `ext` is the outcome of the *)
(* operation's external calls.                                             *)
(***************************************************************************)
\* d[k] for each k of keys raises KeyError
Missing(d, keys) == \E k \in keys : k \notin DOMAIN d

\* s[:n]
Take(s, n) == SubSeq(s, 1, Min(Len(s), n))

LatLng(lat, lng) == [lat |-> lat, lng |-> lng]

\* ---- VisionService ----
_mock_satellite_analysis(lat, lng, analysis_type) ==
    [location |-> LatLng(lat, lng), analysis_type |-> analysis_type,
     insights |-> "Mock Satellite Analysis", image_url |-> "via.placeholder.com",
     success |-> TRUE, mock |-> TRUE]

\* _download_image and generate_content run inside the try; ext is "ok" or
\* names the one that raises
analyze_satellite_image(enabled, lat, lng, zoom, analysis_type, ext) ==
    IF ~enabled THEN Return(_mock_satellite_analysis(lat, lng, analysis_type))
    ELSE IF ext # "ok" THEN Return(_mock_satellite_analysis(lat, lng, analysis_type))
    ELSE Return([location |-> LatLng(lat, lng), analysis_type |-> analysis_type,
                 insights |-> "response.text", image_url |-> "maps.googleapis.com/staticmap",
                 success |-> TRUE])

_mock_street_view_analysis(lat, lng, focus) ==
    [location |-> LatLng(lat, lng), analysis_focus |-> focus,
     insights |-> "Mock Street View Analysis", image_url |-> "via.placeholder.com",
     success |-> TRUE, mock |-> TRUE]

analyze_street_view(enabled, lat, lng, heading, analysis_focus, ext) ==
    IF ~enabled THEN Return(_mock_street_view_analysis(lat, lng, analysis_focus))
    ELSE IF ext # "ok" THEN Return(_mock_street_view_analysis(lat, lng, analysis_focus))
    ELSE Return([location |-> [lat |-> lat, lng |-> lng, heading |-> heading],
                 analysis_focus |-> analysis_focus,
                 insights |-> "response.text", image_url |-> "maps.googleapis.com/streetview",
                 success |-> TRUE])

\* loc['lat'] is read outside any try; _generate_comparative_summary answers
\* a raise of generate_content with its own fallback sentence
analyze_multiple_locations(enabled, locations, analysis_type, ext) ==
    LET locs == Take(locations, 5)
        default_zoom == 18
        analyses == [i \in 1..Len(locs) |->
                      [location |-> locs[i],
                       analysis |-> analyze_satellite_image(enabled, locs[i].lat, locs[i].lng,
                                        default_zoom, "commercial_potential", ext).ret]]
        summary == IF ext = "generate_raises" THEN "Comparative analysis in progress..."
                   ELSE "response.text"
    IN  IF \E i \in 1..Len(locs) : Missing(locs[i], {"lat", "lng"}) THEN Raise("KeyError")
        ELSE IF enabled /\ Len(analyses) > 1
        THEN Return([individual_analyses |-> analyses, comparative_summary |-> summary,
                     success |-> TRUE])
        ELSE Return([individual_analyses |-> analyses,
                     comparative_summary |-> "Comparative analysis available with Gemini API",
                     success |-> TRUE])

\* sentiment_score 0.7 in thousandths
analyze_sentiment_from_reviews(enabled, reviews, aspect, ext) ==
    IF ~enabled \/ reviews = <<>>
    THEN Return([sentiment_score |-> 700, positive_aspects |-> <<"location", "atmosphere">>,
                 negative_aspects |-> <<"service">>, summary |-> "Mock sentiment analysis"])
    ELSE IF ext # "ok" THEN Return([error |-> "generate_content failed", success |-> FALSE])
    ELSE Return([sentiment_analysis |-> "response.text", review_count |-> Len(reviews),
                 success |-> TRUE])

\* ---- RoutingService ----
\* an Optional request field or argument that is present; NoneDict when absent
Some(v) == [some |-> v]

RECURSIVE SeqSum(_)
SeqSum(s) == IF s = <<>> THEN 0 ELSE Head(s) + SeqSum(Tail(s))

RECURSIVE SeqMax(_)
SeqMax(s) == IF Len(s) = 1 THEN s[1] ELSE Max(Head(s), SeqMax(Tail(s)))

\* total_distance_km in hundredths, total_duration_minutes in tenths
_mock_optimized_route(origin, destination, waypoints, mode) ==
    LET total_points == Len(waypoints) + 2
    IN  [origin |-> origin, destination |-> destination, waypoints |-> waypoints,
         optimized_order |-> [i \in 1..Len(waypoints) |-> i - 1],
         total_distance_km |-> total_points * 150,
         total_duration_minutes |-> total_points * 85,
         mode |-> mode, polyline |-> "mock_polyline_data", legs |-> <<>>,
         success |-> TRUE, mock |-> TRUE]

\* what client.directions answers: it raises, or returns a list of routes
\* (none, one of two legs, one without legs)
DirectionsOutcomes ==
    LET Leg(meters, seconds) ==
            [distance |-> [value |-> meters], duration |-> [value |-> seconds], steps |-> 3]
    IN  { [raises |-> TRUE],
          [raises |-> FALSE, routes |-> <<>>],
          [raises |-> FALSE,
           routes |-> <<[legs |-> <<Leg(1200, 300), Leg(2300, 540)>>,
                         overview_polyline |-> [points |-> "encoded"]]>>],
          [raises |-> FALSE, routes |-> <<[overview_polyline |-> [points |-> "encoded"]]>>] }

optimize_multi_point_route(enabled, origin, destination, waypoints, mode, ext) ==
    LET mock == Return(_mock_optimized_route(origin, destination, waypoints, mode))
        route == ext.routes[1]
        total_distance == SeqSum([i \in 1..Len(route.legs) |-> route.legs[i].distance.value])
        total_duration == SeqSum([i \in 1..Len(route.legs) |-> route.legs[i].duration.value])
    IN  IF ~enabled THEN mock
        ELSE IF \E i \in 1..Len(waypoints) : Missing(waypoints[i], {"lat", "lng"}) THEN mock
        ELSE IF Missing(origin, {"lat", "lng"}) \/ Missing(destination, {"lat", "lng"}) THEN mock
        ELSE IF ext.raises THEN mock
        ELSE IF ext.routes = <<>> THEN Return([error |-> "No route found", success |-> FALSE])
        ELSE IF Missing(route, {"legs", "overview_polyline"}) THEN mock
        ELSE Return([origin |-> origin, destination |-> destination, waypoints |-> waypoints,
                     optimized_order |-> Get(route, "waypoint_order",
                                             [i \in 1..Len(waypoints) |-> i - 1]),
                     total_distance_meters |-> total_distance,
                     total_distance_km |-> RoundDiv(total_distance, 10),
                     total_duration_seconds |-> total_duration,
                     total_duration_minutes |-> RoundDiv(total_duration, 6),
                     mode |-> mode, polyline |-> route.overview_polyline.points,
                     legs |-> [i \in 1..Len(route.legs) |-> [steps |-> route.legs[i].steps]],
                     success |-> TRUE])

\* interval / max_interval raises ZeroDivisionError when max_interval is 0;
\* the callers below test that before they ask for a color
_get_isochrone_color(interval, max_interval) ==
    LET low == IF max_interval > 0 THEN 100 * interval <= 33 * max_interval
                                   ELSE 100 * interval >= 33 * max_interval
        mid == IF max_interval > 0 THEN 100 * interval <= 66 * max_interval
                                   ELSE 100 * interval >= 66 * max_interval
    IN  IF low THEN "#10b981" ELSE IF mid THEN "#f59e0b" ELSE "#ef4444"

\* the polygon's coordinates are left out of the payload; its point count
\* (16 for every circle) stays
_mock_isochrone(center, duration, mode, intervals) ==
    IF intervals # <<>> /\ Missing(center, {"lat", "lng"}) THEN Raise("KeyError")
    ELSE IF intervals # <<>> /\ SeqMax(intervals) = 0 THEN Raise("ZeroDivisionError")
    ELSE Return([center |-> center, mode |-> mode, max_duration_minutes |-> duration,
                 isochrones |-> [i \in 1..Len(intervals) |->
                     [duration_minutes |-> intervals[i], points_count |-> 16,
                      color |-> _get_isochrone_color(intervals[i], SeqMax(intervals))]],
                 success |-> TRUE, mock |-> TRUE])

\* what client.distance_matrix answers: it raises, or one row of elements
\* whose duration is in seconds
MatrixOutcomes ==
    { [raises |-> TRUE],
      [raises |-> FALSE, elements |-> <<240, 540, 1200>>] }

\* the isochrones of the real path, one for each interval of `sorted` that
\* reaches a sample point
RECURSIVE Reached(_, _, _)
Reached(sorted, elements, intervals) ==
    IF sorted = <<>> THEN <<>>
    ELSE LET interval == Head(sorted)
             n == Cardinality({i \in 1..Len(elements) : elements[i] <= 60 * interval})
         IN  (IF n = 0 THEN <<>>
              ELSE <<[duration_minutes |-> interval, points_count |-> n,
                      color |-> _get_isochrone_color(interval, SeqMax(intervals))]>>)
             \o Reached(Tail(sorted), elements, intervals)

calculate_isochrone(enabled, center, duration_minutes, mode, intervals_arg, ext) ==
    LET intervals == IF IsNoneDict(intervals_arg)
                     THEN <<duration_minutes \div 3, (duration_minutes * 2) \div 3, duration_minutes>>
                     ELSE intervals_arg.some
        mock == _mock_isochrone(center, duration_minutes, mode, intervals)
        reachable == \E i \in 1..Len(intervals) : \E j \in 1..Len(ext.elements) :
                        ext.elements[j] <= 60 * intervals[i]
    IN  IF ~enabled THEN mock
        ELSE IF Missing(center, {"lat", "lng"}) THEN mock
        ELSE IF ext.raises THEN mock
        ELSE IF reachable /\ SeqMax(intervals) = 0 THEN mock
        ELSE Return([center |-> center, mode |-> mode, max_duration_minutes |-> duration_minutes,
                     isochrones |-> Reached(SortSeq(intervals, LAMBDA a, b : a < b),
                                            ext.elements, intervals),
                     success |-> TRUE])

\* max(0, 10 - (minutes / max_duration * 10)) as the fraction num / den, den > 0
AccessScore(minutes, max_duration) ==
    LET sign == IF max_duration > 0 THEN 1 ELSE -1
    IN  [num |-> Max(0, sign * (10 * max_duration - 10 * minutes)),
         den |-> sign * max_duration]

\* coordinates are in 0.0001 degree: + 0.005 is + 50.  overall_score is in
\* tenths.  enumerate gives a type named twice the index of its last place.
_mock_accessibility_analysis(location, poi_types, max_duration_arg) ==
    LET max_duration == max_duration_arg.some
        poi_names == [transit_station |-> "Metro Station", hospital |-> "General Hospital",
                      school |-> "Public School", supermarket |-> "Supermarket",
                      pharmacy |-> "Pharmacy"]
        title == [cafe |-> "Cafe"]
        types == {poi_types[i] : i \in 1..Len(poi_types)}
        last(t) == CHOOSE i \in 1..Len(poi_types) :
                      poi_types[i] = t /\ \A j \in (i + 1)..Len(poi_types) : poi_types[j] # t
        minutes(t) == 5 + (last(t) - 1) * 3
        scores == [t \in types |->
                     [name |-> Get(poi_names, t, Get(title, t, t)),
                      duration_minutes |-> minutes(t),
                      distance_meters |-> minutes(t) * 80,
                      score |-> AccessScore(minutes(t), max_duration),
                      location |-> LatLng(location.lat + 50, location.lng + 50),
                      accessible |-> minutes(t) <= max_duration]]
        total == SeqSum([i \in 1..Len(poi_types) |->
                     IF last(poi_types[i]) = i
                     THEN AccessScore(minutes(poi_types[i]), max_duration).num ELSE 0])
    IN  IF poi_types # <<>> /\ IsNoneDict(max_duration_arg) THEN Raise("TypeError")
        ELSE IF poi_types # <<>> /\ max_duration = 0 THEN Raise("ZeroDivisionError")
        ELSE IF poi_types # <<>> /\ Missing(location, {"lat", "lng"}) THEN Raise("KeyError")
        ELSE IF poi_types = <<>> THEN Raise("ZeroDivisionError")
        ELSE Return([location |-> location, accessibility_scores |-> scores,
                     overall_score |-> RoundDiv(10 * total,
                                          AccessScore(0, max_duration).den * Cardinality(types)),
                     max_duration_minutes |-> max_duration_arg,
                     success |-> TRUE, mock |-> TRUE])

\* what places_nearby and directions answer for every type asked: a raise,
\* no place, or a closest place and the walk to it
NearbyOutcomes ==
    { [raises |-> TRUE],
      [raises |-> FALSE, found |-> FALSE],
      [raises |-> FALSE, found |-> TRUE, seconds |-> 420, meters |-> 560] }

\* duration_minutes and the scores are in tenths
analyze_accessibility(enabled, location, poi_types_arg, max_duration_arg, ext) ==
    LET poi_types == IF IsNoneDict(poi_types_arg)
                     THEN <<"transit_station", "hospital", "school", "supermarket", "pharmacy">>
                     ELSE poi_types_arg.some
        mock == _mock_accessibility_analysis(location, poi_types, max_duration_arg)
        max_duration == max_duration_arg.some
        types == {poi_types[i] : i \in 1..Len(poi_types)}
        score == AccessScore(ext.seconds \div 60, max_duration)
        entry == [name |-> "closest.name",
                  duration_minutes |-> (ext.seconds \div 60) * 10,
                  distance_meters |-> ext.meters,
                  score |-> RoundDiv(10 * score.num, score.den),
                  location |-> "closest.geometry.location",
                  accessible |-> ext.seconds <= 60 * max_duration]
    IN  IF ~enabled THEN mock
        ELSE IF poi_types # <<>> /\ Missing(location, {"lat", "lng"}) THEN mock
        ELSE IF poi_types # <<>> /\ ext.raises THEN mock
        ELSE IF poi_types = <<>> \/ ~ext.found THEN mock
        ELSE IF IsNoneDict(max_duration_arg) \/ max_duration = 0 THEN mock
        ELSE Return([location |-> location,
                     accessibility_scores |-> [t \in types |-> entry],
                     overall_score |-> RoundDiv(10 * score.num, score.den),
                     max_duration_minutes |-> max_duration_arg,
                     success |-> TRUE])

\* the centroid's sum(...) / len(locations) is kept as the exact fraction
\* sum / count; rating 4.5 and total_travel_time_minutes 25.0 are in tenths
_mock_optimal_meeting_point(locations, mode) ==
    LET Mean(values) == [sum |-> SeqSum(values), count |-> Len(values)]
    IN  IF \E i \in 1..Len(locations) : Missing(locations[i], {"lat", "lng"})
        THEN Raise("KeyError")
        ELSE Return([participant_locations |-> locations,
                     optimal_meeting_point |->
                         [name |-> "Central CafÃ©",
                          location |->
                              [lat |-> Mean([i \in 1..Len(locations) |-> locations[i].lat]),
                               lng |-> Mean([i \in 1..Len(locations) |-> locations[i].lng])],
                          address |-> "Downtown Area", rating |-> 45,
                          total_travel_time_minutes |-> 250],
                     mode |-> mode, success |-> TRUE, mock |-> TRUE])

\* what places_nearby answers: a raise or a list of places.  seconds[i] is
\* the travel time directions gives participant i to the place; a
\* participant beyond the list gets no route.
PlacesOutcomes ==
    LET Candidate(name, seconds) ==
            [name |-> name, geometry |-> [location |-> name], vicinity |-> "vicinity",
             rating |-> 40, seconds |-> seconds]
    IN  { [raises |-> TRUE],
          [raises |-> FALSE, results |-> <<>>],
          [raises |-> FALSE,
           results |-> <<Candidate("A", <<600, 600>>), Candidate("B", <<300, 600>>)>>],
          [raises |-> FALSE,
           results |-> <<Candidate("A", <<300, 300>>), Candidate("B", <<300, 300>>),
                         Candidate("C", <<>>)>>],
          [raises |-> FALSE,
           results |-> <<Candidate("A", <<600, 600, 600>>), Candidate("B", <<600, 600, 600>>),
                         Candidate("C", <<600, 600, 600>>), Candidate("D", <<900, 600>>),
                         Candidate("E", <<600, 300, 600>>), Candidate("F", <<60, 60, 60>>)>>] }

\* best_location after the loop over the places: a later place replaces the
\* best one only when its total is strictly smaller than min_total_time,
\* which starts as float('inf')
RECURSIVE BestLocation(_, _, _, _)
BestLocation(places, locations, best_location, min_total_time) ==
    IF places = <<>> THEN best_location
    ELSE LET place == Head(places)
             total_time == SeqSum([i \in 1..Len(locations) |->
                               IF i <= Len(place.seconds) THEN place.seconds[i] ELSE 0])
         IN  IF "inf" \in DOMAIN min_total_time \/ total_time < min_total_time.seconds
             THEN BestLocation(Tail(places), locations,
                      [name |-> place.name, location |-> place.geometry.location,
                       address |-> place.vicinity, rating |-> place.rating,
                       total_travel_time_minutes |-> RoundDiv(total_time, 6)],
                      [seconds |-> total_time])
             ELSE BestLocation(Tail(places), locations, best_location, min_total_time)

find_optimal_meeting_point(enabled, locations, mode, ext) ==
    IF Len(locations) < 2 THEN Return([error |-> "Need at least 2 locations", success |-> FALSE])
    ELSE IF ~enabled THEN _mock_optimal_meeting_point(locations, mode)
    ELSE IF \E i \in 1..Len(locations) : Missing(locations[i], {"lat", "lng"})
    THEN _mock_optimal_meeting_point(locations, mode)
    ELSE IF ext.raises THEN _mock_optimal_meeting_point(locations, mode)
    ELSE Return([participant_locations |-> locations,
                 optimal_meeting_point |->
                     BestLocation(Take(ext.results, 5), locations, NoneDict, [inf |-> TRUE]),
                 mode |-> mode, success |-> TRUE])

\* growth_rate is in hundredths: round(span * 0.035, 2), which rounds half
\* away from zero on the spans drawn here.  years[1], years[2], years[3] of
\* key_changes raise IndexError on a list shorter than four.
_mock_historical_data(lat, lng, years) ==
    IF Len(years) < 4 THEN Raise("IndexError")
    ELSE LET span == years[Len(years)] - years[1]
             x == 35 * span
         IN  Return([location |-> LatLng(lat, lng), years_analyzed |-> years,
                     images |-> [i \in 1..Len(years) |-> [year |-> years[i]]],
                     change_analysis |-> [new_constructions |-> span * 8],
                     growth_rate |-> IF x >= 0 THEN (x + 5) \div 10 ELSE -((-x + 5) \div 10),
                     key_changes |-> <<years[1], years[2], years[3], years[4]>>,
                     predictions |-> {years[Len(years)] + 5, years[Len(years)] + 10},
                     success |-> TRUE, mock |-> TRUE])

\* _calculate_growth_rate is span * 0.03, in hundredths; _identify_key_changes
\* reads years[1], years[2], years[3] inside the try
get_historical_comparison(enabled, lat, lng, years_arg) ==
    LET years == IF IsNoneDict(years_arg) THEN <<2010, 2015, 2020, 2024>> ELSE years_arg.some
        _calculate_growth_rate == IF Len(years) < 2 THEN 0 ELSE 3 * (years[Len(years)] - years[1])
    IN  IF ~enabled THEN _mock_historical_data(lat, lng, years)
        ELSE IF Len(years) < 4 THEN _mock_historical_data(lat, lng, years)
        ELSE Return([location |-> LatLng(lat, lng), years_analyzed |-> years,
                     images |-> [i \in 1..Len(years) |-> [year |-> years[i]]],
                     change_analysis |-> [new_constructions |-> Len(years) * 15],
                     growth_rate |-> _calculate_growth_rate,
                     key_changes |-> <<years[2], years[3], years[4]>>,
                     success |-> TRUE])

\* the simulators that read params.get raise AttributeError when the request
\* gave parameters: null.  multipliers are in tenths; int() truncates.
simulate_scenario(lat, lng, scenario_type, parameters) ==
    LET multipliers == [small |-> 5, medium |-> 10, large |-> 18]
        mall_size == Get(parameters, "size", "medium")
        mult == Get(multipliers, mall_size, 10)
        growth_pct == Get(parameters, "growth_percentage", 30)
        park_size == Get(parameters, "size_hectares", 5)
        Simulated(scenario, details) ==
            Return([scenario |-> scenario, location |-> LatLng(lat, lng),
                    details |-> details, success |-> TRUE])
    IN  CASE scenario_type = "new_metro_station" -> Simulated("New Metro Station", <<>>)
          [] scenario_type = "commercial_zone" -> Simulated("Convert to Commercial Zone", <<>>)
          [] scenario_type \in {"new_shopping_mall", "population_increase", "new_park"}
                 /\ IsNoneDict(parameters) -> Raise("AttributeError")
          [] scenario_type = "new_shopping_mall" /\ ~IsNoneDict(parameters) ->
                 Simulated("New Shopping Mall",
                     [size |-> mall_size, estimated_stores |-> (80 * mult) \div 10,
                      parking_spaces |-> (800 * mult) \div 10,
                      daily_visitors_estimate |-> (15000 * mult) \div 10])
          [] scenario_type = "population_increase" /\ ~IsNoneDict(parameters) ->
                 Simulated("Population Increase",
                     [growth_pct |-> growth_pct, schools |-> growth_pct \div 10,
                      prices |-> <<(growth_pct * 8) \div 10, (growth_pct * 12) \div 10>>])
          [] scenario_type = "new_park" /\ ~IsNoneDict(parameters) ->
                 Simulated("New Park",
                     [park_size |-> park_size, adjacent |-> <<park_size * 2, park_size * 3>>,
                      events |-> park_size * 10])
          [] OTHER -> Simulated("Generic Urban Change", <<>>)

\* scores are in thousandths
_generate_recommendation(city, score, business_type) ==
    IF score >= 85000 THEN "Excellent choice"
    ELSE IF score >= 70000 THEN "Good opportunity"
    ELSE IF score >= 60000 THEN "Moderate potential"
    ELSE "Challenging market"

\* compare_cities reading every name given
compare_cities_unlimited(cities, criteria, business_type) ==
    LET city_data == _get_city_database
        known == SelectSeq(cities, LAMBDA c : c \in DOMAIN city_data)
        entries == [i \in 1..Len(known) |->
                      LET data == city_data[known[i]]
                          score == _calculate_city_score(data, criteria, business_type)
                      IN  [city |-> known[i], score |-> score,
                           population |-> data.population, avg_income |-> data.avg_income,
                           gdp_per_capita |-> data.gdp_per_capita,
                           competition_level |-> Get(data, "competition", "medium"),
                           market_saturation |-> Get(data, "saturation", "50%"),
                           growth_rate |-> data.growth_rate,
                           recommendation |->
                               _generate_recommendation(known[i], score, business_type)]]
        sorted == SortByScoreDesc(entries)
        medal(i) == IF i = 1 THEN "gold" ELSE IF i = 2 THEN "silver"
                    ELSE IF i = 3 THEN "bronze" ELSE ""
        ranked == [i \in 1..Len(sorted) |->
                     [city |-> sorted[i].city, score |-> sorted[i].score,
                      population |-> sorted[i].population, avg_income |-> sorted[i].avg_income,
                      gdp_per_capita |-> sorted[i].gdp_per_capita,
                      competition_level |-> sorted[i].competition_level,
                      market_saturation |-> sorted[i].market_saturation,
                      growth_rate |-> sorted[i].growth_rate,
                      recommendation |-> sorted[i].recommendation,
                      rank |-> i, medal |-> medal(i)]]
        summary == IF ranked = <<>> THEN [text |-> "No cities to compare"]
                   ELSE [text |-> "Multi-City Analysis Summary",
                         business_type |-> business_type,
                         top |-> sorted[1].city, top_score |-> sorted[1].score,
                         recommendation |-> sorted[1].recommendation, count |-> Len(ranked)]
    IN  Return([comparison_type |-> business_type, cities_analyzed |-> Len(ranked),
                criteria |-> criteria, results |-> ranked,
                summary |-> summary, success |-> TRUE])

\* cities[:10]; a name outside the table is skipped; the sort by score is
\* stable and descending
compare_cities(cities, criteria, business_type) ==
    LET city_data == _get_city_database
        known == SelectSeq(Take(cities, 10), LAMBDA c : c \in DOMAIN city_data)
        entries == [i \in 1..Len(known) |->
                      LET data == city_data[known[i]]
                          score == _calculate_city_score(data, criteria, business_type)
                      IN  [city |-> known[i], score |-> score,
                           population |-> data.population, avg_income |-> data.avg_income,
                           gdp_per_capita |-> data.gdp_per_capita,
                           competition_level |-> Get(data, "competition", "medium"),
                           market_saturation |-> Get(data, "saturation", "50%"),
                           growth_rate |-> data.growth_rate,
                           recommendation |->
                               _generate_recommendation(known[i], score, business_type)]]
        sorted == SortByScoreDesc(entries)
        medal(i) == IF i = 1 THEN "gold" ELSE IF i = 2 THEN "silver"
                    ELSE IF i = 3 THEN "bronze" ELSE ""
        ranked == [i \in 1..Len(sorted) |->
                     [city |-> sorted[i].city, score |-> sorted[i].score,
                      population |-> sorted[i].population, avg_income |-> sorted[i].avg_income,
                      gdp_per_capita |-> sorted[i].gdp_per_capita,
                      competition_level |-> sorted[i].competition_level,
                      market_saturation |-> sorted[i].market_saturation,
                      growth_rate |-> sorted[i].growth_rate,
                      recommendation |-> sorted[i].recommendation,
                      rank |-> i, medal |-> medal(i)]]
        summary == IF ranked = <<>> THEN [text |-> "No cities to compare"]
                   ELSE [text |-> "Multi-City Analysis Summary",
                         business_type |-> business_type,
                         top |-> sorted[1].city, top_score |-> sorted[1].score,
                         recommendation |-> sorted[1].recommendation, count |-> Len(ranked)]
    IN  Return([comparison_type |-> business_type, cities_analyzed |-> Len(ranked),
                criteria |-> criteria, results |-> ranked,
                summary |-> summary, success |-> TRUE])

\* a direct call of compare_cities, the call before it kept when it was one too
CompareCities(cities, criteria, business_type) ==
    /\ call' = [op |-> "compare_cities", cities |-> cities, criteria |-> criteria,
                business_type |-> business_type,
                ret |-> compare_cities(cities, criteria, business_type).ret]
    /\ first' = IF call.op = "compare_cities" THEN call ELSE NoCall
    /\ Frame

NextCity ==
    \E criteria \in Criteria, business_type \in BusinessTypes :
        \/ \E city \in DOMAIN _get_city_database : ScoreTableEntry(city, criteria, business_type)
        \/ \E p \in Populations : ScoreWithPopulation(p, criteria, business_type)
        \/ \E inc \in Incomes : ScoreWithIncome(inc, criteria, business_type)
        \/ \E i \in 1..Len(CompetitionLevels) :
               ScoreWithCompetition(CompetitionLevels[i], criteria, business_type)
        \/ \E cities \in { <<"Curitiba">>, <<"Atlantis", "Porto_Alegre", "Sao_Paulo">>,
                            <<"Belo_Horizonte", "Curitiba", "Rio_de_Janeiro", "Porto_Alegre">> } :
               CompareCities(cities, criteria, business_type)

SpecCity == Init /\ [][NextCity]_vars

\* confidence_score 0.75 in thousandths.  Here and below "~" stands for a
\* character of the source file outside Latin-1.
_mock_photo_analysis(analysis_type) ==
    [identified_location |-> "Appears to be Avenida Paulista",
     city |-> <<"S","~","o"," ","P","a","u","l","o">>,
     neighborhood |-> "Bela Vista / Jardins region",
     characteristics |-> <<"commercial", "high-end", "busy", "modern", "well-maintained">>,
     confidence_score |-> 750, full_analysis |-> "Mock Photo Analysis",
     success |-> TRUE, mock |-> TRUE]

\* base64.b64decode, Image.open and generate_content all run inside the try:
\* either raises, or generate_content answers with a text.  The texts are
\* single lines, so text.split('\n') gives the text itself.
PhotoOutcomes ==
    {[raises |-> "decode"], [raises |-> "generate"]}
        \cup {[raises |-> "no", text |-> t] : t \in
                { <<>>,
                  <<"C","l","e","a","r","l","y"," ","C","u","r","i","t","i","b","a">>,
                  <<" ","I","t"," ","a","p","p","e","a","r","s"," ","t","o"," ","b","e"," ","a"," ","q","u","i","e","t"," ","b","a","i","r","r","o",","," ","p","o","s","s","i","b","l","y"," ","h","i","s","t","o","r","i","c"," ">>,
                  <<"V","a","l","u","e"," ","R","$"," ","9","0","0">>,
                  <<"S","~","o"," ","P","a","u","l","o"," ","o","r"," ","P","o","r","t","o"," ","A","l","e","g","r","e",","," ","u","n","c","l","e","a","r",","," ","m","i","g","h","t"," ","b","e"," ","m","o","d","e","r","n">> }}

\* the _extract_* helpers and _calculate_confidence are the LET definitions;
\* the confidence is counted in tenths and returned in thousandths
analyze_uploaded_photo(enabled, image_data, analysis_type, ext) ==
    LET text == ext.text
        text_lower == Lower(text)
        In(keywords) == SelectSeq(keywords, LAMBDA k : Contains(text_lower, Lower(k)))
        cities == << <<"S","~","o"," ","P","a","u","l","o">>,
                      <<"R","i","o"," ","d","e"," ","J","a","n","e","i","r","o">>,
                      <<"P","o","r","t","o"," ","A","l","e","g","r","e">>,
                      <<"C","u","r","i","t","i","b","a">>,
                      <<"B","e","l","o"," ","H","o","r","i","z","o","n","t","e">>,
                      <<"B","r","a","s","~","l","i","a">>,
                      <<"S","a","l","v","a","d","o","r">>,
                      <<"F","o","r","t","a","l","e","z","a">> >>
        _extract_location == IF Contains(text_lower, <<"a","p","p","e","a","r","s"," ","t","o"," ","b","e">>)
                             THEN Strip(text) ELSE None
        _extract_city == IF In(cities) = <<>> THEN None ELSE In(cities)[1]
        _extract_neighborhood ==
            IF Contains(text_lower, <<"n","e","i","g","h","b","o","r","h","o","o","d">>)
               \/ Contains(text_lower, <<"b","a","i","r","r","o">>)
            THEN "Identified in analysis" ELSE "None"
        _extract_characteristics ==
            Take(In(<< <<"c","o","m","m","e","r","c","i","a","l">>,
                     <<"r","e","s","i","d","e","n","t","i","a","l">>,
                     <<"h","i","g","h","-","e","n","d">>,
                     <<"m","i","d","d","l","e","-","c","l","a","s","s">>,
                     <<"b","u","s","y">>,
                     <<"q","u","i","e","t">>,
                     <<"m","o","d","e","r","n">>,
                     <<"h","i","s","t","o","r","i","c">> >>), 5)
        _extract_value == IF Contains(text, <<"R","$">>) \/ Contains(text_lower, <<"v","a","l","u","e">>)
                          THEN "Estimate available in analysis" ELSE "None"
        _calculate_confidence ==
            Max(0, Min(10, 5 + Len(In(<< <<"c","l","e","a","r","l","y">>,
                                         <<"d","e","f","i","n","i","t","e","l","y">>,
                                         <<"o","b","v","i","o","u","s","l","y">>,
                                         <<"c","e","r","t","a","i","n","l","y">> >>))
                             - Len(In(<< <<"p","o","s","s","i","b","l","y">>,
                                         <<"m","i","g","h","t">>,
                                         <<"p","e","r","h","a","p","s">>,
                                         <<"u","n","c","l","e","a","r">> >>))))
    IN  IF ~enabled THEN Return(_mock_photo_analysis(analysis_type))
        ELSE IF ext.raises # "no" THEN Return(_mock_photo_analysis(analysis_type))
        ELSE Return([identified_location |-> _extract_location,
                     city |-> _extract_city,
                     neighborhood |-> _extract_neighborhood,
                     characteristics |-> _extract_characteristics,
                     property_value_estimate |-> _extract_value,
                     similar_locations |-> <<>>,
                     confidence_score |-> _calculate_confidence * 100,
                     full_analysis |-> text, success |-> TRUE])

(***************************************************************************)
(* HTTP handlers.  Each wraps one service call in try/except: the value    *)
(* returned is the body of a 200 answer, an exception becomes              *)
(* HTTPException(status_code=500, detail=str(e)).                          *)
(***************************************************************************)
HttpResponse(r) ==
    IF r.raised THEN [status |-> 500, detail |-> r.ret] ELSE [status |-> 200, body |-> r.ret]

\* the record of one handled request: the service operation behind it, the
\* outcome of its external calls, what it returned or raised, what the same
\* operation does on the same arguments when its key is not configured, and
\* the HTTP answer
Handled(endpoint, operation, enabled, args, ext, external_raised, r, unconfigured) ==
    [op |-> endpoint, operation |-> operation, enabled |-> enabled, args |-> args,
     ext |-> ext, external_raised |-> enabled /\ external_raised,
     raised |-> r.raised, ret |-> r.ret, unconfigured |-> unconfigured,
     http |-> HttpResponse(r)]

\* ---- request values ----
PointA == LatLng(base_lat, base_lng)

PointB == LatLng(-300300, -512100)

\* a Dict[str, float] that names neither lat nor lng
PointNoLatLng == [x |-> 0]

MaxLocations == 2

LocationLists ==
    UNION { [1..k -> {PointA, PointB, PointNoLatLng}] : k \in 0..MaxLocations }

MaxYears == 4

YearLists ==
    {NoneDict} \cup { Some(ys) : ys \in UNION { [1..k -> {2010, 2024}] : k \in 0..MaxYears } }

\* the outcomes of a service's external calls: none when it is not configured
Outcomes(enabled, outcomes) == IF enabled THEN outcomes ELSE {NotCalled}

\* ---- GET / , /sample-queries, /advanced/features ----
root ==
    /\ call' = [op |-> "/", raised |-> FALSE,
            http |-> [status |-> 200,
                      body |-> [message |-> "GeoMindIA - Intelligent Geospatial Analysis",
                                status |-> "running",
                                endpoints |-> <<"/query", "/health", "/sample-queries">>]]]
    /\ first' = first
    /\ Frame

\* the four categories of sample queries, by the number of queries in each
get_sample_queries ==
    /\ call' = [op |-> "/sample-queries", raised |-> FALSE,
            http |-> [status |-> 200,
                      body |-> [samples |->
                          <<[category |-> "Business Analysis", queries |-> 4],
                            [category |-> "Route & Accessibility", queries |-> 4],
                            [category |-> "Urban Planning", queries |-> 3],
                            [category |-> "Comparative Analysis", queries |-> 4]>>]]]
    /\ first' = first
    /\ Frame

get_advanced_features_info ==
    /\ call' = [op |-> "/advanced/features", raised |-> FALSE,
            http |-> [status |-> 200,
                      body |-> [features |->
                          <<[name |-> "Photo Analysis",
                             status |-> IF llm_enabled THEN "enabled" ELSE "mock"],
                            [name |-> "Time Travel",
                             status |-> IF maps_enabled THEN "enabled" ELSE "mock"],
                            [name |-> "What-If Simulator", status |-> "enabled"],
                            [name |-> "Multi-City Comparison", status |-> "enabled"]>>]]]
    /\ first' = first
    /\ Frame

\* ---- GET /health ----
\* GeospatialService.check_connection: db names the store call that fails
check_connection(db) ==
    LET got == get_pool(db # "create_pool")
    IN  [pool |-> got.pool, created |-> got.created,
         ret |-> IF got.ret = None THEN "unhealthy"
                 ELSE IF db \in {"acquire", "fetch"} THEN "unhealthy: error"
                 ELSE "healthy"]

\* the other services' check_connection is "healthy" if enabled else "disabled"
health_check ==
    \E db \in {"none", "create_pool", "acquire", "fetch"} :
        /\ db = "create_pool" => pool = None
        /\ LET checked == check_connection(db)
               health(enabled) == IF enabled THEN "healthy" ELSE "disabled"
           IN  /\ pool' = checked.pool
               /\ store' = [store EXCEPT !.created = checked.created]
               /\ call' = [op |-> "/health", db |-> db, raised |-> FALSE,
                           http |-> [status |-> 200,
                                     body |-> [api |-> "healthy", database |-> checked.ret,
                                               llm |-> health(llm_enabled),
                                               maps |-> health(maps_enabled),
                                               vision |-> health(llm_enabled),
                                               routing |-> health(maps_enabled),
                                               advanced_features |-> "healthy"]]]
        /\ UNCHANGED <<llm_enabled, maps_enabled, suspended, pc, request, interpretation,
                       sql_query, results, response, exc, first>>

\* ---- POST /enrich-data ----
enrich_database(enabled) ==
    IF ~enabled THEN Return([error |-> "Google Maps API not configured"])
    ELSE Return([status |-> "success",
                 message |-> "Database enrichment would be performed here"])

enrich_data ==
    LET r == enrich_database(maps_enabled)
    IN  /\ call' = [op |-> "/enrich-data", raised |-> r.raised,
                http |-> HttpResponse(Return([success |-> TRUE, result |-> r.ret]))]
        /\ first' = first
        /\ Frame

\* ---- POST /analyze/* ----
handle_analyze_satellite_image ==
    \E analysis_type \in {"commercial_potential", "infrastructure"},
       ext \in Outcomes(llm_enabled, {"ok", "download_raises", "generate_raises"}) :
        /\ call' = Handled("/analyze/satellite", "analyze_satellite_image", llm_enabled,
                   [lat |-> base_lat, lng |-> base_lng, analysis_type |-> analysis_type],
                   ext, ext # "ok",
                   analyze_satellite_image(llm_enabled, base_lat, base_lng, 18,
                                           analysis_type, ext),
                   analyze_satellite_image(FALSE, base_lat, base_lng, 18,
                                           analysis_type, NotCalled))
        /\ first' = first
        /\ Frame

handle_analyze_street_view ==
    \E ext \in Outcomes(llm_enabled, {"ok", "download_raises", "generate_raises"}) :
        /\ call' = Handled("/analyze/streetview", "analyze_street_view", llm_enabled,
                   [lat |-> base_lat, lng |-> base_lng, heading |-> 0],
                   ext, ext # "ok",
                   analyze_street_view(llm_enabled, base_lat, base_lng, 0,
                                       "storefront_quality", ext),
                   analyze_street_view(FALSE, base_lat, base_lng, 0,
                                       "storefront_quality", NotCalled))
        /\ first' = first
        /\ Frame

compare_locations_visually ==
    \E locations \in LocationLists, ext \in Outcomes(llm_enabled, {"ok", "generate_raises"}) :
        /\ call' = Handled("/analyze/compare-locations", "analyze_multiple_locations",
                   llm_enabled, [locations |-> locations], ext, ext # "ok",
                   analyze_multiple_locations(llm_enabled, locations, "comparative", ext),
                   analyze_multiple_locations(FALSE, locations, "comparative", NotCalled))
        /\ first' = first
        /\ Frame

analyze_sentiment ==
    \E reviews \in { <<>>, <<"good">>, <<"good", "slow service">> },
       ext \in Outcomes(llm_enabled, {"ok", "generate_raises"}) :
        /\ call' = Handled("/analyze/sentiment", "analyze_sentiment_from_reviews",
                   llm_enabled, [reviews |-> reviews], ext, reviews # <<>> /\ ext # "ok",
                   analyze_sentiment_from_reviews(llm_enabled, reviews, "overall", ext),
                   analyze_sentiment_from_reviews(FALSE, reviews, "overall", NotCalled))
        /\ first' = first
        /\ Frame

\* ---- POST /routing/* ----
optimize_route ==
    \E origin \in {PointA, PointNoLatLng},
       waypoints \in { <<>>, <<PointB>>, <<PointNoLatLng>> },
       ext \in Outcomes(maps_enabled, DirectionsOutcomes) :
        /\ call' = Handled("/routing/optimize", "optimize_multi_point_route", maps_enabled,
                   [origin |-> origin, waypoints |-> waypoints], ext,
                   /\ ~Missing(origin, {"lat", "lng"})
                   /\ \A i \in 1..Len(waypoints) : ~Missing(waypoints[i], {"lat", "lng"})
                   /\ ext.raises,
                   optimize_multi_point_route(maps_enabled, origin, PointB, waypoints,
                                              "driving", ext),
                   optimize_multi_point_route(FALSE, origin, PointB, waypoints,
                                              "driving", NotCalled))
        /\ first' = first
        /\ Frame

calculate_isochrone_map ==
    \E center \in {PointA, PointNoLatLng}, duration_minutes \in {0, 15},
       intervals \in { NoneDict, Some(<<>>), Some(<<5, 10>>), Some(<<10, 5, 20>>), Some(<<0>>) },
       ext \in Outcomes(maps_enabled, MatrixOutcomes) :
        /\ call' = Handled("/routing/isochrone", "calculate_isochrone", maps_enabled,
                   [center |-> center, duration_minutes |-> duration_minutes,
                    intervals |-> intervals], ext,
                   ~Missing(center, {"lat", "lng"}) /\ ext.raises,
                   calculate_isochrone(maps_enabled, center, duration_minutes, "walking",
                                       intervals, ext),
                   calculate_isochrone(FALSE, center, duration_minutes, "walking",
                                       intervals, NotCalled))
        /\ first' = first
        /\ Frame

analyze_location_accessibility ==
    \E location \in {PointA, PointNoLatLng},
       poi_types \in { NoneDict, Some(<<>>), Some(<<"school">>), Some(<<"cafe", "school">>),
                       Some(<<"school", "school">>) },
       max_duration_minutes \in { NoneDict, Some(0), Some(15) },
       ext \in Outcomes(maps_enabled, NearbyOutcomes) :
        /\ call' = Handled("/routing/accessibility", "analyze_accessibility", maps_enabled,
                   [location |-> location, poi_types |-> poi_types,
                    max_duration_minutes |-> max_duration_minutes], ext,
                   /\ ~Missing(location, {"lat", "lng"})
                   /\ poi_types # Some(<<>>)
                   /\ ext.raises,
                   analyze_accessibility(maps_enabled, location, poi_types,
                                         max_duration_minutes, ext),
                   analyze_accessibility(FALSE, location, poi_types,
                                         max_duration_minutes, NotCalled))
        /\ first' = first
        /\ Frame

find_meeting_point ==
    \E locations \in LocationLists, ext \in Outcomes(maps_enabled, PlacesOutcomes) :
        /\ call' = Handled("/routing/meeting-point", "find_optimal_meeting_point", maps_enabled,
                   [locations |-> locations], ext,
                   /\ Len(locations) >= 2
                   /\ \A i \in 1..Len(locations) : ~Missing(locations[i], {"lat", "lng"})
                   /\ ext.raises,
                   find_optimal_meeting_point(maps_enabled, locations, "transit", ext),
                   find_optimal_meeting_point(FALSE, locations, "transit", NotCalled))
        /\ first' = first
        /\ Frame

\* ---- POST /advanced/* ----
handle_analyze_uploaded_photo ==
    \E ext \in Outcomes(llm_enabled, PhotoOutcomes) :
        /\ call' = Handled("/advanced/photo-analysis", "analyze_uploaded_photo", llm_enabled,
                   [image_data |-> "aGVsbG8=", analysis_type |-> "location"], ext,
                   ext.raises = "generate",
                   analyze_uploaded_photo(llm_enabled, "aGVsbG8=", "location", ext),
                   analyze_uploaded_photo(FALSE, "aGVsbG8=", "location", NotCalled))
        /\ first' = first
        /\ Frame

\* get_historical_comparison makes no external call
get_time_travel_analysis ==
    \E years \in YearLists :
        /\ call' = Handled("/advanced/time-travel", "get_historical_comparison", maps_enabled,
                   [lat |-> base_lat, lng |-> base_lng, years |-> years], NotCalled, FALSE,
                   get_historical_comparison(maps_enabled, base_lat, base_lng, years),
                   get_historical_comparison(FALSE, base_lat, base_lng, years))
        /\ first' = first
        /\ Frame

\* the simulator and the city comparison use no key and no external call
simulate_what_if_scenario ==
    \E scenario_type \in { "new_metro_station", "new_shopping_mall", "population_increase",
                           "new_park", "commercial_zone", "teleport" },
       parameters \in { NoneDict, [size |-> "large"], [growth_percentage |-> 50],
                        [size_hectares |-> 10] } :
        LET r == simulate_scenario(base_lat, base_lng, scenario_type, parameters)
        IN  /\ call' = Handled("/advanced/what-if", "simulate_scenario", TRUE,
                       [scenario_type |-> scenario_type, parameters |-> parameters],
                       NotCalled, FALSE, r, r)
            /\ first' = first
            /\ Frame

\* the last list has eleven names, one more than compare_cities reads
compare_multiple_cities ==
    \E cities \in { <<>>, <<"Curitiba">>, <<"Atlantis", "Porto_Alegre", "Sao_Paulo">>,
                    <<"Curitiba", "Rio_de_Janeiro", "Curitiba">>,
                    <<"Atlantis", "Curitiba", "Atlantis", "Atlantis", "Atlantis", "Sao_Paulo",
                      "Atlantis", "Atlantis", "Atlantis", "Belo_Horizonte", "Porto_Alegre">> },
       criteria \in Criteria, business_type \in BusinessTypes :
        LET r == compare_cities(cities, criteria, business_type)
        IN  /\ call' = Handled("/advanced/compare-cities", "compare_cities", TRUE,
                       [cities |-> cities, criteria |-> criteria,
                        business_type |-> business_type],
                       NotCalled, FALSE, r, r)
            /\ first' = first
            /\ Frame

NextHttp ==
    \/ root
    \/ health_check
    \/ get_sample_queries
    \/ enrich_data
    \/ handle_analyze_satellite_image
    \/ handle_analyze_street_view
    \/ compare_locations_visually
    \/ analyze_sentiment
    \/ optimize_route
    \/ calculate_isochrone_map
    \/ analyze_location_accessibility
    \/ find_meeting_point
    \/ handle_analyze_uploaded_photo
    \/ get_time_travel_analysis
    \/ simulate_what_if_scenario
    \/ compare_multiple_cities
    \/ get_advanced_features_info

SpecHttp == Init /\ [][NextHttp]_vars

\* C1: with neither key configured, every handled request is answered with
\* HTTP 200 and a body, never with HTTP 500
C1_UnconfiguredEndpointsSucceed ==
    (~llm_enabled /\ ~maps_enabled /\ call.op # "none")
        => /\ call.http.status = 200
           /\ "body" \in DOMAIN call.http

\* C6: when the external call of a configured operation raises, the operation
\* returns the value it returns on the same arguments when unconfigured
C6_ExternalFailureReturnsMock ==
    (call.op # "none" /\ "external_raised" \in DOMAIN call /\ call.external_raised)
        => /\ ~call.raised
           /\ ~call.unconfigured.raised
           /\ call.ret = call.unconfigured.ret

(***************************************************************************)
(* POST /query: the order of the steps                                     *)
(***************************************************************************)
\* C11: within one /query request the steps run in the order interpret,
\* generate SQL, execute, enrich, choose visualization type: from each position
\* process_query moves to the next one or to its except clause, never back and
\* never past a step, the request stays the same, the operation called at a
\* position is that position's, and at the enrichment position
\* enrich_with_places is called exactly when the interpretation's
\* enrich_with_places is truthy.
C11_StepsInOrder ==
    [][LET Rank == [interpret |-> 1, generate_sql |-> 2, execute |-> 3, enrich |-> 4,
                    visualize |-> 5, done |-> 6]
           Op == [interpret |-> "interpret_query", generate_sql |-> "generate_sql_query",
                  execute |-> "execute_query", enrich |-> "enrich_with_places",
                  visualize |-> "determine_visualization_type"]
           truthy == IsDict(interpretation) /\ Get(interpretation, "enrich_with_places", FALSE)
       IN  pc \in DOMAIN Op =>
               /\ request' = request
               /\ pc' \in DOMAIN Rank
               /\ \/ Rank[pc'] = Rank[pc] + 1 /\ exc' = "none"
                  \/ pc' = "done" /\ exc' # "none"
               /\ pc # "enrich" => call'.op = Op[pc]
               /\ pc = "enrich" => (call'.op = "enrich_with_places" <=> truthy)
               /\ pc = "enrich" /\ ~truthy /\ pc' = "visualize" => results' = results
      ]_vars

\* a request answered after all five steps ran, the enrichment included
C11_Witness ==
    /\ pc = "done"
    /\ response.success
    /\ maps_enabled
    /\ Get(interpretation, "enrich_with_places", FALSE)
    /\ call.op = "determine_visualization_type"
    /\ \E k \in 1..Len(results) : "nearby_places" \in DOMAIN results[k]

(***************************************************************************)
(* The keyword rules of the fallback interpreter                           *)
(***************************************************************************)
\* C15: in the keyword fallback interpreter every query text that contains
\* "500" and, in any letter case, "meter" gets a buffer operation with radius
\* 500 meters in spatial_operations, and every query text that contains
\* "coffee" in any letter case gets a category filter in filters.
C15_KeywordRules ==
    call.op = "_fallback_interpretation" =>
        /\ (Contains(call.query, Kw.n500) /\ Contains(Lower(call.query), Kw.meter))
               => \E i \in 1..Len(call.ret.spatial_operations) :
                      /\ call.ret.spatial_operations[i].operation = "buffer"
                      /\ call.ret.spatial_operations[i].parameters
                             = [radius |-> "500", unit |-> "meters"]
        /\ Contains(Lower(call.query), Kw.coffee)
               => \E i \in 1..Len(call.ret.filters) : call.ret.filters[i].unit = "category"

\* a text with "500", "METERS" in upper case and "Coffee" capitalised
C15_Witness ==
    /\ call.op = "_fallback_interpretation"
    /\ Contains(call.query, Kw.n500)
    /\ ~Contains(call.query, Kw.meter)
    /\ Contains(Lower(call.query), Kw.meter)
    /\ Len(call.ret.spatial_operations) = 1
    /\ first.op = "_fallback_interpretation"
    /\ ~Contains(first.query, Kw.coffee)
    /\ Contains(Lower(first.query), Kw.coffee)
    /\ Len(first.ret.filters) = 1

(***************************************************************************)
(* POST /query: the statement submitted to the store                       *)
(***************************************************************************)
\* C16 as stated: in every /query request where a pool is available, the
\* string submitted to the store is exactly the string generate_sql_query
\* returned, and it is exactly the sql_query field of the response.
C16_SubmittedIsResponseSql ==
    /\ pc = "execute" => (call.op = "generate_sql_query" /\ ~call.raised /\ sql_query = call.ret)
    /\ call.op = "execute_query"
          => /\ pc = "enrich" => call.sql = sql_query
             /\ call.submitted \in {None, call.sql}
             /\ (pool # None /\ call.db.fail \notin {"create_pool", "acquire"})
                    => call.submitted = call.sql
    /\ store.submitted # None => store.submitted = sql_query
    /\ (pc = "done" /\ store.submitted # None) => response.sql_query = store.submitted

\* C16 amended: in every /query request where a pool is available, the string
\* submitted to the store is exactly the string generate_sql_query returned,
\* and it is exactly the sql_query field of the response when the response
\* is a success; an error response, also one built after the statement was
\* submitted, carries the empty string as sql_query.
C16_SubmittedIsGeneratedSql ==
    /\ pc = "execute" => (call.op = "generate_sql_query" /\ ~call.raised /\ sql_query = call.ret)
    /\ call.op = "execute_query"
          => /\ pc = "enrich" => call.sql = sql_query
             /\ call.submitted \in {None, call.sql}
             /\ (pool # None /\ call.db.fail \notin {"create_pool", "acquire"})
                    => call.submitted = call.sql
    /\ store.submitted # None => store.submitted = sql_query
    /\ (pc = "done" /\ store.submitted # None /\ response.success)
          => response.sql_query = store.submitted
    /\ (pc = "done" /\ ~response.success) => response.sql_query = <<>>

\* a successful response to a request whose statement reached the store
C16_Witness ==
    /\ pc = "done"
    /\ response.success
    /\ pool # None
    /\ store.submitted # None
    /\ Len(store.submitted) > 0
    /\ response.sql_query = store.submitted

(***************************************************************************)
(* MapsService.enrich_with_places: what it changes in the rows             *)
(***************************************************************************)
\* C17: enrich_with_places keeps the number and order of rows and changes
\* nothing in a row except adding a nearby_places list: when Maps is configured
\* every row that has a center gets a nearby_places list of at most five
\* entries and every row without a center is left unchanged; when Maps is not
\* configured all rows are returned unchanged.
C17_EnrichAddsOnlyNearbyPlaces ==
    call.op = "enrich_with_places" =>
        /\ ~call.raised
        /\ Len(call.ret) = Len(call.rows)
        /\ \A k \in 1..Len(call.rows) :
               IF maps_enabled /\ "center" \in DOMAIN call.rows[k]
               THEN /\ DOMAIN call.ret[k] = DOMAIN call.rows[k] \cup {"nearby_places"}
                    /\ \A f \in DOMAIN call.rows[k] \ {"nearby_places"} :
                           call.ret[k][f] = call.rows[k][f]
                    /\ Len(call.ret[k].nearby_places) <= NearbyLimit
               ELSE call.ret[k] = call.rows[k]

(***************************************************************************)
(* GeospatialService.execute_query: the rows it returns                    *)
(***************************************************************************)
\* C18: when the store returns rows (no step of execute_query fails),
\* execute_query returns one mapping per row in the same order; a field named
\* geometry that is a string is replaced by its parsed JSON value when it parses
\* and kept as the original string, the row still returned, when it does not;
\* no other field is changed.
C18_RowsConverted ==
    (call.op = "execute_query" /\ call.db.fail = "none") =>
        /\ ~call.raised
        /\ Len(call.ret) = Len(call.db.rows)
        /\ \A k \in 1..Len(call.db.rows) :
               LET row == call.db.rows[k]
                   out == call.ret[k]
               IN  /\ DOMAIN out = DOMAIN row
                   /\ \A f \in DOMAIN row :
                          IF f = "geometry" /\ "str" \in DOMAIN row[f]
                             /\ ~json_loads(row[f].str).raised
                          THEN out[f] = json_loads(row[f].str).ret
                          ELSE out[f] = row[f]

\* two rows returned, one geometry kept as text, the other parsed
C18_Witness ==
    /\ call.op = "execute_query"
    /\ call.db.fail = "none"
    /\ Len(call.ret) = 2
    /\ \A k \in 1..2 : "geometry" \in DOMAIN call.db.rows[k]
    /\ call.db.rows[1].geometry = [str |-> Texts.wkt]
    /\ call.ret[1].geometry = [str |-> Texts.wkt]
    /\ call.db.rows[2].geometry = [str |-> Texts.geojson]
    /\ call.ret[2].geometry = [type |-> "Point", coordinates |-> <<-512177, -300346>>]

(***************************************************************************)
(* Sequential direct calls of service operations on one LLMService and one *)
(* GeospatialService; `first` is the call made before `call`               *)
(***************************************************************************)
\* the interpretations handed to _fallback_sql_query: those of the pipeline,
\* and ones with an empty city, a city with a quote, and a city of the
\* fallback interpreter with other fields
SqlInterpretations ==
    MockInterpretations
        \cup { [location |-> [city |-> <<>>]],
               [location |-> [city |-> <<"O","'","B">>], filters |-> <<>>],
               [location |-> [city |-> Kw.PortoAlegre], enrich_with_places |-> TRUE] }

CallFallbackSql(interp) ==
    /\ call' = [op |-> "_fallback_sql_query", interp |-> interp,
                raised |-> _fallback_sql_query(interp).raised,
                ret |-> _fallback_sql_query(interp).ret]
    /\ first' = call
    /\ Frame

\* db names the store call that fails ("none": no call fails); creation can
\* only fail in a call that attempts it
CallGetPool(db) ==
    /\ db = "create_pool" => pool = None
    /\ LET got == get_pool(db # "create_pool")
       IN  /\ call' = [op |-> "get_pool", db |-> db, ret |-> got.ret]
           /\ pool' = got.pool
           /\ store' = [store EXCEPT !.created = got.created]
    /\ first' = call
    /\ UNCHANGED <<llm_enabled, maps_enabled, suspended, pc, request, interpretation,
                   sql_query, results, response, exc>>

CallCheckConnection(db) ==
    /\ db = "create_pool" => pool = None
    /\ LET checked == check_connection(db)
       IN  /\ call' = [op |-> "check_connection", db |-> db, ret |-> checked.ret]
           /\ pool' = checked.pool
           /\ store' = [store EXCEPT !.created = checked.created]
    /\ first' = call
    /\ UNCHANGED <<llm_enabled, maps_enabled, suspended, pc, request, interpretation,
                   sql_query, results, response, exc>>

CallExecuteQuery(sql, interp, db) ==
    /\ db.fail = "create_pool" => pool = None
    /\ LET r == execute_query(sql, interp, db)
       IN  /\ call' = [op |-> "execute_query", sql |-> sql, interp |-> interp, db |-> db,
                       raised |-> r.raised, ret |-> r.ret, submitted |-> r.submitted]
           /\ pool' = r.pool
           /\ store' = [created |-> r.created, submitted |-> r.submitted]
    /\ first' = call
    /\ UNCHANGED <<llm_enabled, maps_enabled, suspended, pc, request, interpretation,
                   sql_query, results, response, exc>>

CallDetermineVisualizationType(interp, rows) ==
    /\ call' = [op |-> "determine_visualization_type", interp |-> interp, rows |-> rows,
                raised |-> determine_visualization_type(interp, rows).raised,
                ret |-> determine_visualization_type(interp, rows).ret]
    /\ first' = call
    /\ Frame

NextCalls ==
    \/ \E interp \in SqlInterpretations : CallFallbackSql(interp)
    \/ \E db \in {"none", "create_pool"} : CallGetPool(db)
    \/ \E db \in {"none", "create_pool", "acquire", "fetch"} : CallCheckConnection(db)
    \/ \E db \in { o \in DbOutcomes : o.fail = "none" => (Len(o.rows) = 1
                                                         /\ "center" \notin DOMAIN o.rows[1]) } :
          CallExecuteQuery(_fallback_sql_query(_fallback_interpretation(test_query)).ret,
                           _fallback_interpretation(test_query), db)
    \/ \E interp \in { [query_type |-> <<"H","e","a","t","m","a","p">>,
                        analysis_type |-> <<"p","r","o","x","i","m","i","t","y">>],
                       [query_type |-> <<"p","o","l","y","g","o","n">>,
                        analysis_type |-> <<"D","e","n","s","i","t","y">>],
                       [query_type |-> <<"s","e","r","v","i","c","e","_","a","r","e","a">>],
                       [query_type |-> <<"a","r","e","a"," ","r","o","u","t","e">>],
                       [query_type |-> <<"P","a","t","h">>],
                       [query_type |-> <<"p","o","i","n","t">>],
                       [analysis_type |-> <<"d","e","n","s","i","t","y">>],
                       [query_type |-> <<"r","o","u","t","e">>, analysis_type |-> None],
                       [query_type |-> None],
                       [json_scalar |-> 42] },
             rows \in { <<>>, <<MockRow(0)>> } :
          CallDetermineVisualizationType(interp, rows)

SpecCalls == Init /\ [][NextCalls]_vars

\* C12: in any sequential run of get_pool, check_connection and execute_query
\* calls on one GeospatialService, no pool exists before the first such call,
\* the database opens at most one pool, and once self.pool is set it is never
\* created again, replaced or cleared: every later get_pool returns that pool.
C12_PoolCreatedOnce ==
    /\ [](/\ store.created <= 1
          /\ pool = None <=> store.created = 0
          /\ pool # None => pool = Pool(1)
          /\ call = NoCall => pool = None
          /\ (call.op = "get_pool" /\ pool # None) => call.ret = pool)
    /\ [][pool # None => (pool' = pool /\ store'.created = store.created)]_vars

\* a second get_pool after the one that created the pool
C12_Witness ==
    /\ first.op = "get_pool"
    /\ first.ret = Pool(1)
    /\ call.op = "get_pool"
    /\ call.ret = Pool(1)
    /\ pool = Pool(1)
    /\ store.created = 1

C20_FailedCreationNotRemembered ==
    /\ (call.op = "execute_query" /\ call.db.fail = "create_pool")
          => /\ pool = None
             /\ ~call.raised
             /\ call.ret = _get_mock_data(call.interp)
             /\ call.submitted = None
    /\ (call.op \in {"get_pool", "check_connection"} /\ call.db = "create_pool")
          => pool = None
    /\ (call.op = "get_pool" /\ call.db = "none") => (call.ret # None /\ pool = call.ret)
    /\ (call.op = "execute_query" /\ call.db.fail = "none")
          => /\ pool # None
             /\ call.submitted = call.sql
             /\ Len(call.ret) = Len(call.db.rows)

\* an execute_query answered from the store right after one whose pool
\* creation failed
C20_Witness ==
    /\ first.op = "execute_query"
    /\ first.db.fail = "create_pool"
    /\ Len(first.ret) = MockRowCount
    /\ call.op = "execute_query"
    /\ call.db.fail = "none"
    /\ Len(call.ret) = 1
    /\ call.submitted = call.sql
    /\ pool = Pool(1)

(***************************************************************************)
(* Concurrent requests calling get_pool on one GeospatialService.  The     *)
(* event loop runs one coroutine at a time and switches at an await:       *)
(* get_pool tests self.pool, awaits asyncpg.create_pool, and assigns       *)
(* self.pool when the await returns.                                       *)
(***************************************************************************)
MaxCallers == 3

\* coroutine t enters get_pool: it returns self.pool if there is one,
\* otherwise it calls create_pool and is suspended at the await
GetPoolEnter(t) ==
    /\ \A c \in suspended : c.caller # t
    /\ IF pool = None
       THEN /\ suspended' = suspended \cup {[caller |-> t, op |-> "get_pool", at |-> "create_pool"]}
            /\ UNCHANGED call
       ELSE /\ call' = [op |-> "get_pool", caller |-> t, ret |-> pool]
            /\ UNCHANGED suspended
    /\ first' = first
    /\ UNCHANGED <<llm_enabled, maps_enabled, pool, store, pc, request, interpretation,
                   sql_query, results, response, exc>>

\* the await of coroutine t returns: the pool the database opened is assigned
\* to self.pool and returned, or create_pool raised and None is returned
GetPoolResume(t, create_ok) ==
    /\ [caller |-> t, op |-> "get_pool", at |-> "create_pool"] \in suspended
    /\ suspended' = suspended \ {[caller |-> t, op |-> "get_pool", at |-> "create_pool"]}
    /\ IF create_ok
       THEN /\ store' = [store EXCEPT !.created = @ + 1]
            /\ pool' = Pool(store.created + 1)
            /\ call' = [op |-> "get_pool", caller |-> t, ret |-> Pool(store.created + 1)]
       ELSE /\ call' = [op |-> "get_pool", caller |-> t, ret |-> None]
            /\ UNCHANGED <<pool, store>>
    /\ first' = first
    /\ UNCHANGED <<llm_enabled, maps_enabled, pc, request, interpretation,
                   sql_query, results, response, exc>>

NextRace ==
    \/ \E t \in 1..MaxCallers : GetPoolEnter(t)
    \/ \E t \in 1..MaxCallers, create_ok \in BOOLEAN : GetPoolResume(t, create_ok)

SpecRace == Init /\ [][NextRace]_vars

\* C19: under every interleaving of concurrent requests that call get_pool on
\* the same GeospatialService while the pool is still unset, the pool is
\* successfully created at most once: the database opens no second pool, and
\* self.pool, once set, is the first pool opened.
C19_PoolCreatedOnceConcurrently ==
    /\ store.created <= 1
    /\ pool # None => pool = Pool(1)

(***************************************************************************)
(* POST /query: two requests in flight.  The running coroutine's locals    *)
(* are the variables pc .. exc; the other coroutine's are in `suspended`.  *)
(* The services hold no state but the pool, so a switch is allowed between  *)
(* any two steps, which covers every await of process_query.  A request    *)
(* carries env, what the external services answer to it: the model's two   *)
(* responses, the store's behaviour and the Places API's.                  *)
(***************************************************************************)
IsoRequests ==
    LET Envs ==
            { [interp |-> [raises |-> FALSE, text |-> Texts.heatmap],
               sql |-> [raises |-> FALSE,
                        text |-> <<"SELECT name, center FROM business_zones">>],
               db |-> [fail |-> "down"],
               maps |-> [fail_at |-> 0, n |-> 1]],
              [interp |-> [raises |-> TRUE],
               sql |-> [raises |-> TRUE],
               db |-> [fail |-> "none",
                       rows |-> << [id |-> 1, name |-> <<"B","o","m"," ","F","i","m">>,
                                    geometry |-> [str |-> Texts.geojson]] >>],
               maps |-> [fail_at |-> 1, n |-> 0]] }
    IN  { [query |-> test_query, context |-> ctx, env |-> e] : ctx \in Contexts, e \in Envs }
            \cup { [query |-> Kw.PortoAlegre, context |-> NoneDict, env |-> e] : e \in Envs }

\* a request is received by the coroutine that is not handling one; `keep`:
\* the response it has just given is kept for comparison
ReceiveIso(r, keep) ==
    /\ pc \in {"idle", "done"}
    /\ request' = r
    /\ pc' = "interpret"
    /\ interpretation' = Unset
    /\ sql_query' = None
    /\ results' = <<>>
    /\ response' = Unset
    /\ exc' = "none"
    /\ store' = [store EXCEPT !.submitted = None]
    /\ first' = IF keep /\ pc = "done" /\ first = NoCall
                THEN [op |-> "response", request |-> request, response |-> response]
                ELSE first
    /\ UNCHANGED <<llm_enabled, maps_enabled, pool, suspended, call>>

\* the event loop suspends the running coroutine and resumes the other one
Switch ==
    LET mine == [op |-> "process_query", pc |-> pc, request |-> request,
                 interpretation |-> interpretation, sql_query |-> sql_query,
                 results |-> results, response |-> response, exc |-> exc]
        other == IF suspended = {}
                 THEN [op |-> "process_query", pc |-> "idle", request |-> Unset,
                       interpretation |-> Unset, sql_query |-> None, results |-> <<>>,
                       response |-> Unset, exc |-> "none"]
                 ELSE CHOOSE c \in suspended : TRUE
    IN  /\ pc \notin {"idle", "done"}
        /\ suspended' = {mine}
        /\ pc' = other.pc
        /\ request' = other.request
        /\ interpretation' = other.interpretation
        /\ sql_query' = other.sql_query
        /\ results' = other.results
        /\ response' = other.response
        /\ exc' = other.exc
        /\ UNCHANGED <<llm_enabled, maps_enabled, pool, store, call, first>>

\* a store that is down fails at create_pool, or at acquire once a pool exists
NextIso ==
    \/ \E r \in IsoRequests, keep \in BOOLEAN : ReceiveIso(r, keep)
    \/ StepInterpret(IF llm_enabled THEN request.env.interp ELSE NotCalled)
    \/ StepGenerateSql(IF llm_enabled THEN request.env.sql ELSE NotCalled)
    \/ StepExecute(IF request.env.db.fail = "down"
                   THEN [fail |-> IF pool = None THEN "create_pool" ELSE "acquire"]
                   ELSE request.env.db)
    \/ StepEnrich(IF maps_enabled THEN request.env.maps ELSE NotCalled)
    \/ StepSkipEnrich
    \/ StepRespond
    \/ Switch

SpecIso == Init /\ [][NextIso]_vars

\* C13: for a fixed configuration and fixed behaviour of the external
\* services, the /query response to a request depends only on that request's
\* query and context: whatever requests were handled before it or are in
\* flight beside it, it equals the kept response to an equal request, so
\* nothing of another request's interpretation or rows appears in it.
C13_ResponseDependsOnRequestOnly ==
    (pc = "done" /\ first.op = "response" /\ first.request = request)
        => response = first.response

\* a response with enriched rows that equals the kept one, given while another
\* request with a different query is in flight
C13_Witness ==
    /\ pc = "done"
    /\ first.op = "response"
    /\ first.request = request
    /\ response = first.response
    /\ response.success
    /\ \E k \in 1..Len(response.results) : "nearby_places" \in DOMAIN response.results[k]
    /\ \E c \in suspended : c.pc \in {"generate_sql", "execute", "enrich", "visualize"}
                            /\ c.request.query # request.query

(***************************************************************************)
(* The keyword fallback interpreter: filter, enrichment flag and buffer    *)
(***************************************************************************)
\* C24: in every interpretation produced by the keyword fallback interpreter,
\* enrich_with_places is true whenever filters contains the cafe category
\* filter.
C24_CafeFilterImpliesEnrich ==
    call.op = "_fallback_interpretation" =>
        ((\E i \in 1..Len(call.ret.filters) : call.ret.filters[i] = CafeFilter)
            => call.ret.enrich_with_places = TRUE)

\* C25 as stated: the keyword fallback interpreter adds a buffer operation only
\* to query texts that contain "500" together with the word "meter" (in any
\* letter case), and spatial_operations never holds more than one operation.
C25_BufferOnlyWithMeter ==
    call.op = "_fallback_interpretation" =>
        /\ Len(call.ret.spatial_operations) <= 1
        /\ call.ret.spatial_operations # <<>>
              => /\ Contains(call.query, Kw.n500)
                 /\ Contains(Lower(call.query), Kw.meter)

\* C25 amended: the keyword fallback interpreter adds a buffer operation only
\* to query texts that contain "500" together with "meter" or "metro" (in any
\* letter case): a text without either gets an empty spatial_operations list,
\* and spatial_operations never holds more than one operation.
C25_BufferOnlyWithUnit ==
    call.op = "_fallback_interpretation" =>
        /\ Len(call.ret.spatial_operations) <= 1
        /\ call.ret.spatial_operations # <<>>
              => /\ call.ret.spatial_operations = <<BufferOperation>>
                 /\ Contains(call.query, Kw.n500)
                 /\ Contains(Lower(call.query), Kw.meter)
                        \/ Contains(Lower(call.query), Kw.metro)

\* a text with "500" and "metro" but not "meter", interpreted with the buffer
C25_Witness ==
    /\ call.op = "_fallback_interpretation"
    /\ Contains(call.query, Kw.n500)
    /\ Contains(Lower(call.query), Kw.metro)
    /\ ~Contains(Lower(call.query), Kw.meter)
    /\ call.ret.spatial_operations = <<BufferOperation>>

C21_UnconfiguredQuerySucceeds ==
    ~llm_enabled =>
        /\ exc = "none"
        /\ pc = "done"
              => /\ response.success
                 /\ response.visualization_type
                        = IF response.results = <<>> THEN "none" ELSE "polygon"
                 /\ store.submitted = None => Len(response.results) = MockRowCount
        /\ (call.op = "execute_query" /\ call.db.fail \in {"create_pool", "acquire"})
              => (call.submitted = None /\ Len(call.ret) = MockRowCount)

\* an answered request with the database unreachable and Maps configured: ten
\* rows, each enriched
C21_Witness ==
    /\ ~llm_enabled
    /\ maps_enabled
    /\ pc = "done"
    /\ response.success
    /\ store.submitted = None
    /\ pool = None
    /\ Len(response.results) = MockRowCount
    /\ \A k \in 1..MockRowCount : "nearby_places" \in DOMAIN response.results[k]
    /\ response.visualization_type = "polygon"

\* C22: with the LLM unconfigured, no part of the user's query text reaches
\* the SQL string: over all query texts the generated SQL takes exactly two
\* values, and which one is decided only by whether the lower-cased text
\* contains "porto alegre".
C22_SqlIgnoresQueryText ==
    (~llm_enabled /\ pc \in {"execute", "enrich", "visualize"}) =>
        sql_query = IF Contains(Lower(request.query), Kw.porto_alegre)
                    THEN _fallback_sql_query([location |-> [city |-> Kw.PortoAlegre]]).ret
                    ELSE _fallback_sql_query(EmptyDict).ret

\* the SQL with the WHERE clause, generated for a text that names Porto Alegre
\* and has other words
C22_Witness ==
    /\ ~llm_enabled
    /\ pc = "execute"
    /\ request.query # Kw.PortoAlegre
    /\ Contains(Lower(request.query), Kw.porto_alegre)
    /\ Contains(sql_query, <<"WHERE city = '">> \o Kw.PortoAlegre \o <<"'">>)
    /\ sql_query # _fallback_sql_query(EmptyDict).ret

(***************************************************************************)
(* MultiCityComparisonService.compare_cities                               *)
(***************************************************************************)
\* C26: compare_cities considers only the first 10 names given, silently drops
\* names that are not in the city table, and returns the remaining cities (a
\* name given twice is returned twice) ordered by descending score with rank
\* equal to position (1, 2, ..., n) and cities_analyzed equal to the number of
\* returned rows.
C26_CompareCitiesRanking ==
    call.op = "/advanced/compare-cities" =>
        /\ ~call.raised
        /\ LET cities == call.args.cities
               rows == call.ret.results
               Count(seq, name) == Cardinality({ i \in 1..Len(seq) : seq[i] = name })
               considered == SubSeq(cities, 1, Min(10, Len(cities)))
               returned == [i \in 1..Len(rows) |-> rows[i].city]
           IN  /\ \A i \in 1..Len(rows) : rows[i].city \in DOMAIN _get_city_database
               /\ \A name \in DOMAIN _get_city_database :
                      Count(returned, name) = Count(considered, name)
               /\ \A i \in 1..Len(rows) : rows[i].rank = i
               /\ \A i, j \in 1..Len(rows) : i < j => rows[i].score >= rows[j].score
               /\ call.ret.cities_analyzed = Len(rows)

\* eleven names given, the eleventh in the table and not returned, unknown
\* names dropped, three cities ranked
C26_Witness ==
    /\ call.op = "/advanced/compare-cities"
    /\ Len(call.args.cities) = 11
    /\ call.args.cities[11] = "Porto_Alegre"
    /\ call.args.cities[1] = "Atlantis"
    /\ call.ret.cities_analyzed = 3
    /\ \A i \in 1..3 : call.ret.results[i].city # "Porto_Alegre"
    /\ call.ret.results[1].score > call.ret.results[3].score

\* C27: the score and the rank that compare_cities gives a city do not depend
\* on the criteria or on the business_type of the request: two requests with
\* the same city list and different criteria or business types return the same
\* scores in the same order.
C27_ScoreIgnoresCriteria ==
    (first.op = "compare_cities" /\ call.op = "compare_cities" /\ first.cities = call.cities)
        => /\ Len(first.ret.results) = Len(call.ret.results)
           /\ \A i \in 1..Len(call.ret.results) :
                  /\ first.ret.results[i].city = call.ret.results[i].city
                  /\ first.ret.results[i].score = call.ret.results[i].score
                  /\ first.ret.results[i].rank = call.ret.results[i].rank

\* two calls on the same four cities, with different criteria and different
\* business types
C27_Witness ==
    /\ first.op = "compare_cities"
    /\ call.op = "compare_cities"
    /\ first.cities = call.cities
    /\ first.criteria # call.criteria
    /\ first.business_type # call.business_type
    /\ Len(call.ret.results) = 4
    /\ call.ret.results[1].score > call.ret.results[4].score

(***************************************************************************)
(* POST /routing/meeting-point and POST /advanced/time-travel              *)
(***************************************************************************)
\* C28: when Maps is configured and places_nearby answers with places, the
\* meeting point returned is one of the first five places, and no place among
\* those five that every participant can travel to has a smaller total travel
\* time, summed over the participants, than the place returned: the place
\* returned can be reached by every participant whenever one of the five can
C28_MeetingPointMinimisesTotal ==
    (/\ call.op = "/routing/meeting-point"
     /\ call.enabled
     /\ Len(call.args.locations) >= 2
     /\ \A i \in 1..Len(call.args.locations) :
            ~Missing(call.args.locations[i], {"lat", "lng"})
     /\ ~call.ext.raises
     /\ call.ext.results # <<>>)
        => LET locations == call.args.locations
               considered == Take(call.ext.results, 5)
               Reachable(p) == Len(p.seconds) >= Len(locations)
               Total(p) == SeqSum([i \in 1..Len(locations) |-> p.seconds[i]])
           IN  /\ ~call.raised
               /\ "name" \in DOMAIN call.ret.optimal_meeting_point
               /\ \E k \in 1..Len(considered) :
                      /\ considered[k].name = call.ret.optimal_meeting_point.name
                      /\ \A j \in 1..Len(considered) :
                             Reachable(considered[j])
                                 => /\ Reachable(considered[k])
                                    /\ Total(considered[k]) <= Total(considered[j])

\* C29: get_historical_comparison never raises: for every list of years,
\* configured or not, it returns a success payload whose years_analyzed is the
\* list given (2010, 2015, 2020, 2024 when none is given) and whose images
\* name the same years in the same order
C29_HistoricalComparisonTotal ==
    call.op = "/advanced/time-travel"
        => LET years == IF IsNoneDict(call.args.years) THEN <<2010, 2015, 2020, 2024>>
                        ELSE call.args.years.some
           IN  /\ ~call.raised
               /\ call.ret.success
               /\ call.ret.years_analyzed = years
               /\ Len(call.ret.images) = Len(years)
               /\ \A i \in 1..Len(years) : call.ret.images[i].year = years[i]

====
